---- MODULE Spec2Model ----
(***************************************************************************)
(* Model of base_local_planner's TrajectoryPlanner (trajectory_planner.cpp) *)
(* : the velocity-space search createTrajectories, the trajectory          *)
(* simulation generateTrajectory, the oscillation guard, reconfigure,      *)
(* updatePlan and findBestPath.                                            *)
(*                                                                         *)
(* Numbers.  Every C++ double is a fixed-point integer: the real value v   *)
(* is the integer v * Scale.  Products and quotients are rescaled and      *)
(* truncated toward zero.  Angles are measured in quarter turns, so the    *)
(* real angle pi/2 is the integer Scale and a full turn is 4 * Scale.      *)
(***************************************************************************)
EXTENDS Integers, Sequences, FiniteSets, TLC

Scale == 12

Abs(a) == IF a < 0 THEN -a ELSE a
Min(a, b) == IF b < a THEN b ELSE a
Max(a, b) == IF a < b THEN b ELSE a

\* quotient of two integers truncated toward zero, as a double quotient
\* that is rounded to the fixed-point grid symmetrically about zero
DivT(a, b) ==
  IF (a >= 0) = (b > 0) THEN Abs(a) \div Abs(b) ELSE -(Abs(a) \div Abs(b))

\* product and quotient of two fixed-point numbers
Mul(a, b) == DivT(a * b, Scale)
Quo(a, b) == DivT(a * Scale, b)

\* integer square root (floor), found digit by digit in base 64
SqrtDigit(n, base, step, top) ==
  CHOOSE d \in 0..top :
    (base + d * step) * (base + d * step) <= n
    /\ n < (base + (d + 1) * step) * (base + (d + 1) * step)
ISqrt(n) ==
  CHOOSE r \in {b + SqrtDigit(n, b, 1, 63) :
                 b \in {a + 64 * SqrtDigit(n, a, 64, 63) :
                         a \in {4096 * SqrtDigit(n, 0, 4096, 10)}}} : TRUE

\* hypot of two fixed-point numbers
hypot(a, b) == ISqrt(a * a + b * b)

\* int(v + 0.5) of a non-negative fixed-point number: a plain integer
RoundToInt(v) == (v + (Scale \div 2)) \div Scale

(***************************************************************************)
(* Angles (angles/angles.h as used by the planner)                         *)
(***************************************************************************)
Pi == 2 * Scale
TwoPi == 4 * Scale

\* angles::normalize_angle: into (-pi, pi]
normalize_angle(a) ==
  LET p == a % TwoPi IN IF p > Pi THEN p - TwoPi ELSE p

\* angles::shortest_angular_distance(from, to)
shortest_angular_distance(from, to) == normalize_angle(to - from)

\* cos and sin, tabulated at the quarter turns (the angle is rounded to the
\* nearest quarter turn)
Quarter(theta) == ((theta + (Scale \div 2)) \div Scale) % 4
cosT(theta) == LET q == Quarter(theta) IN
  IF q = 0 THEN Scale ELSE IF q = 2 THEN -Scale ELSE 0
sinT(theta) == LET q == Quarter(theta) IN
  IF q = 1 THEN Scale ELSE IF q = 3 THEN -Scale ELSE 0

(***************************************************************************)
(* The costmap (costmap_2d::Costmap2D, an external collaborator): a grid   *)
(* of SizeX by SizeY cells of resolution 1 with its origin at (0, 0).      *)
(***************************************************************************)
SizeX == 5
SizeY == 3
Resolution == Scale

LETHAL_OBSTACLE == 254
INSCRIBED_INFLATED_OBSTACLE == 253
NO_INFORMATION == 255

Cells == (0..(SizeX - 1)) \X (0..(SizeY - 1))

\* Costmap2D::worldToMap
worldToMap(wx, wy) ==
  IF wx < 0 \/ wy < 0 THEN [ok |-> FALSE, cell |-> <<0, 0>>]
  ELSE LET mx == wx \div Resolution
           my == wy \div Resolution
       IN IF mx < SizeX /\ my < SizeY
          THEN [ok |-> TRUE, cell |-> <<mx, my>>]
          ELSE [ok |-> FALSE, cell |-> <<0, 0>>]

\* a cell that blocks: lethal, inscribed-inflated or unknown
isObstacle(costmap, c) ==
  costmap[c] \in {LETHAL_OBSTACLE, INSCRIBED_INFLATED_OBSTACLE, NO_INFORMATION}

\* TrajectoryPlanner::pointCost
pointCost(costmap, c) ==
  IF isObstacle(costmap, c) THEN -Scale ELSE costmap[c] * Scale

\* TrajectoryPlanner::footprintCost: the world model's footprint cost of a
\* footprint that is a single point (fewer than three vertices)
footprintCost(costmap, x_i, y_i, theta_i) ==
  LET m == worldToMap(x_i, y_i) IN
  IF ~m.ok THEN -Scale ELSE pointCost(costmap, m.cell)

(***************************************************************************)
(* MapGrid (path_map_ and goal_map_): wavefront propagation of the         *)
(* distance to a seed set over the 4-connected free cells.                 *)
(***************************************************************************)
obstacleCosts == SizeX * SizeY
unreachableCellCosts == SizeX * SizeY + 1

Neigh(c) ==
  {<<c[1] - 1, c[2]>>, <<c[1] + 1, c[2]>>, <<c[1], c[2] - 1>>, <<c[1], c[2] + 1>>}
  \cap Cells

RECURSIVE propagate(_, _, _, _)
propagate(costmap, within, dist, frontier) ==
  IF frontier = {} THEN dist
  ELSE LET d == 1 + dist[CHOOSE f \in frontier : TRUE]
           fresh == {c \in UNION {Neigh(f) : f \in frontier} :
                       dist[c] = unreachableCellCosts}
           free == {c \in fresh : ~isObstacle(costmap, c) \/ c \in within}
           nd == [c \in Cells |->
                    IF c \in free THEN d
                    ELSE IF c \in fresh THEN obstacleCosts
                    ELSE dist[c]]
       IN propagate(costmap, within, nd, free)

\* resetPathDist followed by the propagation from the seeds
computeTargetDistance(costmap, within, seeds) ==
  LET start == {c \in seeds : ~isObstacle(costmap, c) \/ c \in within}
      d0 == [c \in Cells |-> IF c \in start THEN 0 ELSE unreachableCellCosts]
  IN propagate(costmap, within, d0, start)

\* the cells of the poses of a plan that lie on the map
PlanCells(plan) ==
  {worldToMap(plan[i].x, plan[i].y).cell :
     i \in {j \in 1..Len(plan) : worldToMap(plan[j].x, plan[j].y).ok}}

\* MapGrid::setTargetCells: seeded from every pose of the plan
setTargetCells(costmap, within, plan) ==
  computeTargetDistance(costmap, within, PlanCells(plan))

\* MapGrid::setLocalGoal: seeded from the last pose of the plan on the map
setLocalGoal(costmap, plan) ==
  LET on == {j \in 1..Len(plan) : worldToMap(plan[j].x, plan[j].y).ok}
      last == CHOOSE j \in on : \A k \in on : k <= j
  IN computeTargetDistance(costmap, {},
       IF on = {} THEN {} ELSE {worldToMap(plan[last].x, plan[last].y).cell})

(***************************************************************************)
(* Trajectory (trajectory.h): the sampled velocity, the total cost and the *)
(* goal cost term of a simulated candidate.  The fields are those the      *)
(* search reads.                                                           *)
(***************************************************************************)
Trajectory(xv, yv, thetav, cost, goal_cost) ==
  [xv_ |-> xv, yv_ |-> yv, thetav_ |-> thetav, cost_ |-> cost,
   goal_cost_traj_ |-> goal_cost]

\* the sentinel costs of generateTrajectory and createTrajectories
COST_UNSET == -1 * Scale
COST_NO_PATH == -2 * Scale
COST_INITIAL == -3 * Scale
COST_OFF_MAP == -4 * Scale
COST_COLLISION == -5 * Scale

\* headingDiff: initial value 1e3 of the minimum distance to the path
DIST_TO_PATH_INIT == 1000 * Scale
\* generateTrajectory: fabs(heading_diff) < 0.2 rad, 0.2 rad being 1.53
\* fixed-point units of a quarter turn
HEADING_DIFF_TOLERANCE == 2

\* computeNewVelocity (trajectory_planner.h)
computeNewVelocity(vg, vi, a_max, dt) ==
  IF vg - vi >= 0 THEN Min(vg, vi + Mul(a_max, dt))
  ELSE Max(vg, vi - Mul(a_max, dt))

\* computeNewXPosition, computeNewYPosition, computeNewThetaPosition
computeNewXPosition(xi, vx, vy, theta, dt) ==
  xi + Mul(Mul(vx, cosT(theta)) + Mul(vy, cosT(Scale + theta)), dt)
computeNewYPosition(yi, vx, vy, theta, dt) ==
  yi + Mul(Mul(vx, sinT(theta)) + Mul(vy, sinT(Scale + theta)), dt)
computeNewThetaPosition(thetai, vth, dt) == thetai + Mul(vth, dt)

(***************************************************************************)
(* headingDiff.  plan is global_plan_, a sequence indexed from 1; the      *)
(* C++ index i is the TLA+ index i + 1.  u is the value read where the     *)
(* code indexes an empty plan.                                             *)
(***************************************************************************)
\* dist_to_goal_v[i]: arc length from pose i to the end of the plan
RECURSIVE dist_to_goal_v(_, _)
dist_to_goal_v(plan, i) ==
  IF i >= Len(plan) THEN 0
  ELSE hypot(plan[i].x - plan[i + 1].x, plan[i].y - plan[i + 1].y)
       + dist_to_goal_v(plan, i + 1)

\* the scan for i = size - 2 down to 0 (TLA+ index size - 1 down to 1):
\* the minimum distance found and the index that attains it
RECURSIVE nearestScan(_, _, _, _, _, _)
nearestScan(plan, x, y, i, dist_to_path_min, i_curr_loc) ==
  IF i < 1 THEN [min |-> dist_to_path_min, loc |-> i_curr_loc]
  ELSE LET dist_to_path == hypot(plan[i].x - x, plan[i].y - y) IN
       IF dist_to_path < dist_to_path_min
       THEN nearestScan(plan, x, y, i - 1, dist_to_path, i)
       ELSE nearestScan(plan, x, y, i - 1, dist_to_path_min, i_curr_loc)

headingDiff(plan, x, y, heading, u) ==
  IF Len(plan) = 0
  THEN [heading_diff |-> Abs(u), goal_dist |-> u, path_dist |-> DIST_TO_PATH_INIT]
  ELSE
  LET size == Len(plan)
      scan == nearestScan(plan, x, y, size - 1, DIST_TO_PATH_INIT, 1)
      index_plan == Min(scan.loc + 1, size)
      g == dist_to_goal_v(plan, index_plan) + DivT((size - index_plan) * Scale, size)
  IN [heading_diff |-> Abs(shortest_angular_distance(heading, plan[index_plan].th)),
      goal_dist |-> IF g = 0 THEN hypot(plan[size].x - x, plan[size].y - y) ELSE g,
      path_dist |-> scan.min]

(***************************************************************************)
(* generateTrajectory.  c is the configuration read under the mutex, env   *)
(* the costmap, the two grids, the plan and the indeterminate value u.     *)
(***************************************************************************)
\* the step count taken from the sampled speed in both scoring modes
numStepsBySpeed(c, vx_samp, vy_samp, vtheta_samp) ==
  LET vmag == hypot(vx_samp, vy_samp)
      n == RoundToInt(Max(Quo(Mul(vmag, c.sim_time_), c.sim_granularity_),
                          Quo(Abs(vtheta_samp), c.angular_sim_granularity_)))
  IN IF n = 0 THEN 1 ELSE n

numSteps(c, vx_samp, vy_samp, vtheta_samp) ==
  LET vmag == hypot(vx_samp, vy_samp)
      n == IF ~c.heading_scoring_
           THEN RoundToInt(Max(Quo(Mul(vmag, c.sim_time_), c.sim_granularity_),
                               Quo(Abs(vtheta_samp), c.angular_sim_granularity_)))
           ELSE RoundToInt(Quo(c.sim_time_, c.sim_granularity_))
  IN IF n = 0 THEN 1 ELSE n

\* the scoring part of one step of the loop (lines 317-382): the loop state
\* with the distances updated, and whether the point has no path to the goal
scoreStep(c, env, p, s, i, cell) ==
  IF c.simple_attractor_
  THEN LET gx == IF Len(env.plan) = 0 THEN env.u ELSE env.plan[Len(env.plan)].x
           gy == IF Len(env.plan) = 0 THEN env.u ELSE env.plan[Len(env.plan)].y
       IN [bad |-> FALSE,
           s |-> [s EXCEPT !.goal_dist = Mul(s.x_i - gx, s.x_i - gx)
                                         + Mul(s.y_i - gy, s.y_i - gy)]]
  ELSE
  LET last == (i = p.num_steps - 1)
      update == (last /\ c.heading_scoring_) \/ ~c.heading_scoring_
      h == headingDiff(env.plan, s.x_i, s.y_i, s.theta_i, env.u)
      heading_diff == IF last /\ c.heading_scoring_ THEN h.heading_diff
                      ELSE s.heading_diff
      goal_dist == IF ~c.heading_scoring_ THEN env.goal_map[cell] * Scale
                   ELSE IF last THEN h.goal_dist ELSE s.goal_dist
      path_dist == IF ~c.heading_scoring_ THEN env.path_map[cell] * Scale
                   ELSE IF last THEN h.path_dist ELSE s.path_dist
  IN IF ~update THEN [bad |-> FALSE, s |-> s]
     ELSE IF p.impossible_cost <= goal_dist \/ p.impossible_cost <= path_dist
     THEN [bad |-> TRUE, s |-> s]
     ELSE [bad |-> FALSE,
           s |-> [s EXCEPT
                    !.goal_dist = goal_dist,
                    !.path_dist = IF c.path_distance_max_ > 0
                                     /\ path_dist <= c.path_distance_max_
                                  THEN 0 ELSE path_dist,
                    !.heading_diff = IF Abs(heading_diff) < HEADING_DIFF_TOLERANCE
                                     THEN 0 ELSE heading_diff]]

\* the kinematic part of one step (lines 388-396)
advance(p, s) ==
  LET vx_i == computeNewVelocity(p.vx_samp, s.vx_i, p.acc_x, p.dt)
      vy_i == computeNewVelocity(p.vy_samp, s.vy_i, p.acc_y, p.dt)
      vtheta_i == computeNewVelocity(p.vtheta_samp, s.vtheta_i, p.acc_theta, p.dt)
  IN [s EXCEPT !.vx_i = vx_i, !.vy_i = vy_i, !.vtheta_i = vtheta_i,
               !.x_i = computeNewXPosition(s.x_i, vx_i, vy_i, s.theta_i, p.dt),
               !.y_i = computeNewYPosition(s.y_i, vx_i, vy_i, s.theta_i, p.dt),
               !.theta_i = computeNewThetaPosition(s.theta_i, vtheta_i, p.dt)]

\* the loop with the footprint checked before the pose is looked up on
\* the map
RECURSIVE simulateCollisionFirst(_, _, _, _, _)
simulateCollisionFirst(c, env, p, s, i) ==
  IF i >= p.num_steps THEN [fail |-> 0, s |-> s, steps |-> i]
  ELSE
  LET m == worldToMap(s.x_i, s.y_i)
      footprint_cost == footprintCost(env.costmap, s.x_i, s.y_i, s.theta_i) IN
  IF footprint_cost < 0 THEN [fail |-> COST_COLLISION, s |-> s, steps |-> i]
  ELSE IF ~m.ok THEN [fail |-> COST_OFF_MAP, s |-> s, steps |-> i]
  ELSE
  LET occ_cost == Max(Max(s.occ_cost, footprint_cost), env.costmap[m.cell] * Scale)
  IN CHOOSE r \in
       {IF sc.bad THEN [fail |-> COST_NO_PATH, s |-> sc.s, steps |-> i]
        ELSE CHOOSE r2 \in {simulateCollisionFirst(c, env, p, nxt, i + 1) :
                              nxt \in {advance(p, sc.s)}} : TRUE :
          sc \in {scoreStep(c, env, p, [s EXCEPT !.occ_cost = occ_cost], i, m.cell)}} :
       TRUE

\* the loop over the steps (lines 275-400): the sentinel cost of the first
\* failing step, or 0 and the final loop state
RECURSIVE simulate(_, _, _, _, _)
simulate(c, env, p, s, i) ==
  IF i >= p.num_steps THEN [fail |-> 0, s |-> s, steps |-> i]
  ELSE
  LET m == worldToMap(s.x_i, s.y_i) IN
  IF ~m.ok THEN [fail |-> COST_OFF_MAP, s |-> s, steps |-> i]
  ELSE
  LET footprint_cost == footprintCost(env.costmap, s.x_i, s.y_i, s.theta_i) IN
  IF footprint_cost < 0 THEN [fail |-> COST_COLLISION, s |-> s, steps |-> i]
  ELSE
  LET occ_cost == Max(Max(s.occ_cost, footprint_cost), env.costmap[m.cell] * Scale)
  IN CHOOSE r \in
       {IF sc.bad THEN [fail |-> COST_NO_PATH, s |-> sc.s, steps |-> i]
        ELSE CHOOSE r2 \in {simulate(c, env, p, nxt, i + 1) :
                              nxt \in {advance(p, sc.s)}} : TRUE :
          sc \in {scoreStep(c, env, p, [s EXCEPT !.occ_cost = occ_cost], i, m.cell)}} :
       TRUE

\* the weighted sum without the heading term
totalCostNoHeading(c, s) ==
  Mul(c.pdist_scale_, s.path_dist) + Mul(s.goal_dist, c.gdist_scale_)
  + Mul(c.occdist_scale_, s.occ_cost)

\* the weighted sum of the cost terms (lines 403-408)
totalCost(c, s) ==
  IF ~c.heading_scoring_
  THEN Mul(c.pdist_scale_, s.path_dist) + Mul(s.goal_dist, c.gdist_scale_)
       + Mul(c.occdist_scale_, s.occ_cost)
  ELSE Mul(c.occdist_scale_, s.occ_cost) + Mul(c.pdist_scale_, s.path_dist)
       + Mul(s.heading_diff, c.hdiff_scale_) + Mul(s.goal_dist, c.gdist_scale_)

\* generateTrajectory, the simulation (lines 248-408): the sampled velocity,
\* the sentinel of the step that failed or 0, the total cost and the goal
\* cost term; with them the number of steps asked for, the number of steps
\* that passed every check and the locals when the loop was left
trajectoryResult(c, env, x, y, theta, vx, vy, vtheta, vx_samp, vy_samp, vtheta_samp, acc_x, acc_y, acc_theta, impossible_cost) ==
  CHOOSE t \in
    {[xv_ |-> vx_samp, yv_ |-> vy_samp, thetav_ |-> vtheta_samp, fail |-> r.fail,
      cost_ |-> IF r.fail # 0 THEN r.fail ELSE totalCost(c, r.s),
      goal_cost_traj_ |-> Mul(r.s.goal_dist, c.gdist_scale_),
      num_steps |-> numSteps(c, vx_samp, vy_samp, vtheta_samp),
      steps |-> r.steps, s |-> r.s] :
     r \in {simulate(c, env,
              [num_steps |-> num_steps, dt |-> DivT(c.sim_time_, num_steps),
               vx_samp |-> vx_samp, vy_samp |-> vy_samp,
               vtheta_samp |-> vtheta_samp,
               acc_x |-> acc_x, acc_y |-> acc_y, acc_theta |-> acc_theta,
               impossible_cost |-> impossible_cost],
              [x_i |-> x, y_i |-> y, theta_i |-> theta,
               vx_i |-> vx, vy_i |-> vy, vtheta_i |-> vtheta,
               path_dist |-> 0, goal_dist |-> 0, occ_cost |-> 0,
               heading_diff |-> 0],
              0) : num_steps \in {numSteps(c, vx_samp, vy_samp, vtheta_samp)}}} :
    TRUE

\* generateTrajectory, the assignments to traj (lines 241-246, 281, 290, 355,
\* 403-425): goal_cost_traj_ is assigned only when the simulation ran to its
\* end; a failed one leaves the value traj held before
storeTrajectory(traj, res) ==
  IF res.fail # 0
  THEN Trajectory(res.xv_, res.yv_, res.thetav_, res.fail, traj.goal_cost_traj_)
  ELSE Trajectory(res.xv_, res.yv_, res.thetav_, res.cost_, res.goal_cost_traj_)

generateTrajectory(c, env, x, y, theta, vx, vy, vtheta, vx_samp, vy_samp, vtheta_samp, acc_x, acc_y, acc_theta, impossible_cost, traj) ==
  storeTrajectory(traj,
    trajectoryResult(c, env, x, y, theta, vx, vy, vtheta,
                     vx_samp, vy_samp, vtheta_samp,
                     acc_x, acc_y, acc_theta, impossible_cost))

(***************************************************************************)
(* createTrajectories: the velocity window (lines 646-687)                 *)
(***************************************************************************)
\* a double quotient by an int that may be zero: finite, +inf, -inf or NaN
byCount(span, n) ==
  IF n # 0 THEN [k |-> "fin", v |-> DivT(span, n)]
  ELSE [k |-> IF span > 0 THEN "pinf" ELSE IF span < 0 THEN "ninf" ELSE "nan",
        v |-> 0]

\* vtheta_samp > dvtheta || vtheta_samp < -1 * dvtheta
outsideDeadband(vtheta_samp, dvtheta) ==
  IF dvtheta.k = "fin" THEN vtheta_samp > dvtheta.v \/ vtheta_samp < -dvtheta.v
  ELSE dvtheta.k = "ninf"

\* fg is the final goal (final_goal_position_valid_, final_goal_x_,
\* final_goal_y_); u is the value of the locals min_vel_x and min_vel_y that
\* are read without having been assigned when there is no final goal
velocityWindow(c, fg, u, x, y, vx, vy, vtheta, acc_x, acc_y, acc_theta) ==
  LET final_goal_dist == hypot(fg.x - x, fg.y - y)
      cap == Quo(final_goal_dist, c.sim_time_)
      max_vel_x1 == IF fg.valid THEN Min(c.max_vel_x_, cap) ELSE c.max_vel_x_
      min_vel_x1 == IF fg.valid THEN Min(c.min_vel_x_, max_vel_x1) ELSE u
      max_vel_y1 == IF fg.valid THEN Min(c.max_vel_y_, cap) ELSE c.max_vel_y_
      min_vel_y1 == IF fg.valid THEN -max_vel_y1 ELSE u
      T == IF c.dwa_ THEN c.sim_period_ ELSE c.sim_time_
      max_vel_x == Max(Min(max_vel_x1, vx + Mul(acc_x, T)), c.min_vel_x_)
      min_vel_x == IF c.dwa_ THEN Max(min_vel_x1, vx - Mul(acc_x, T)) ELSE min_vel_x1
      max_vel_y == IF c.dwa_ THEN Min(max_vel_y1, vx + Mul(acc_y, T)) ELSE max_vel_y1
      min_vel_y == IF c.dwa_ THEN Max(min_vel_y1, vx - Mul(acc_y, T)) ELSE min_vel_y1
      max_vel_theta == Min(c.max_vel_th_, vtheta + Mul(acc_theta, T))
      min_vel_theta == Max(c.min_vel_th_, vtheta - Mul(acc_theta, T))
  IN [max_vel_x |-> max_vel_x, min_vel_x |-> min_vel_x,
      max_vel_y |-> max_vel_y, min_vel_y |-> min_vel_y,
      max_vel_theta |-> max_vel_theta, min_vel_theta |-> min_vel_theta,
      dvx |-> byCount(max_vel_x - min_vel_x, c.vx_samples_ - 1),
      dvy |-> byCount(max_vel_y - min_vel_y, c.vy_samples_ - 1),
      dvtheta |-> byCount(max_vel_theta - min_vel_theta, c.vtheta_samples_ - 1)]

(***************************************************************************)
(* createTrajectories: the candidates of the sweeps, in the order the      *)
(* loops enumerate them.  A candidate is its tier, its sampled velocity    *)
(* and, for an in-place rotation, the window sample vtheta_samp that was   *)
(* clamped.  The loop bounds are read from the configuration c; w is the   *)
(* window computed at the start of the call.                               *)
(***************************************************************************)
NatOf(n) == IF n < 0 THEN 0 ELSE n

Candidate(tier, vx_samp, vy_samp, vtheta_samp, raw) ==
  [tier |-> tier, vx_samp |-> vx_samp, vy_samp |-> vy_samp,
   vtheta_samp |-> vtheta_samp, raw |-> raw]

\* lines 716-761: for each vx sample the straight trajectory, then
\* vtheta_samples_ - 1 turning ones
translateCandidates(c, w) ==
  LET per == 1 + NatOf(c.vtheta_samples_ - 1)
  IN [k \in 1..(NatOf(c.vx_samples_) * per) |->
        LET i == (k - 1) \div per
            r == (k - 1) % per
            vx_samp == w.min_vel_x + i * w.dvx.v
        IN IF r = 0 THEN Candidate("translate", vx_samp, 0, 0, 0)
           ELSE Candidate("translate", vx_samp, 0,
                          w.min_vel_theta + (r - 1) * w.dvtheta.v, 0)]

\* fabs(vy_samp) < 0.01: the sample is skipped
nearZero(vy_samp) == vy_samp = 0

\* lines 763-791: the lateral sweep at zero forward speed
strafeCandidates(c, w) ==
  SelectSeq([j \in 1..NatOf(c.vy_samples_ - 1) |->
               Candidate("strafe", 0, w.min_vel_y + (j - 1) * w.dvy.v, 0, 0)],
            LAMBDA e : ~nearZero(e.vy_samp))

\* lines 793-824: the lateral sweep at vx_samples_/2 partial forward speeds
strafeForwardCandidates(c, w) ==
  LET per == NatOf(c.vy_samples_ - 1)
  IN SelectSeq([k \in 1..(NatOf(DivT(c.vx_samples_, 2)) * per) |->
                  LET i == (k - 1) \div per
                      j == (k - 1) % per
                  IN Candidate("strafe", DivT(w.min_vel_x, 2) + i * w.dvx.v,
                               w.min_vel_y + j * w.dvy.v, 0, 0)],
               LAMBDA e : ~nearZero(e.vy_samp))

\* lines 866-879: the in-place rotations, clamped to the minimum in-place
\* rotational speed
inPlaceCandidates(c, w) ==
  [i \in 1..NatOf(c.vtheta_samples_) |->
     LET vtheta_samp == w.min_vel_theta + (i - 1) * w.dvtheta.v
         vtheta_samp_limited ==
           IF vtheta_samp > 0 THEN Max(vtheta_samp, c.min_in_place_vel_th_)
           ELSE Min(vtheta_samp, -c.min_in_place_vel_th_)
     IN Candidate("inplace", 0, 0, vtheta_samp_limited, vtheta_samp)]

sweepCandidates(c, w) ==
  translateCandidates(c, w)
  \o (IF c.holonomic_robot_
      THEN strafeCandidates(c, w) \o strafeForwardCandidates(c, w)
      ELSE <<>>)
  \o inPlaceCandidates(c, w)

(***************************************************************************)
(* createTrajectories: the selection.  comp is the trajectory just         *)
(* simulated, best the incumbent, ref the zero-velocity reference          *)
(* current_pos_traj.                                                       *)
(***************************************************************************)
\* the sweep test without the comparison to the reference
betterSweepNoBar(comp, best, ref) ==
  /\ comp.cost_ >= 0
  /\ (comp.cost_ < best.cost_ \/ best.cost_ < 0)

\* the sweep test with a goal cost equal to the reference's let through
betterSweepWeakBar(comp, best, ref) ==
  /\ comp.cost_ >= 0
  /\ (comp.cost_ < best.cost_ \/ best.cost_ < 0)
  /\ comp.goal_cost_traj_ <= ref.goal_cost_traj_

\* the sweep test without the comparison to the incumbent's cost
betterSweepFirst(comp, best, ref) ==
  /\ comp.cost_ >= 0
  /\ best.cost_ < 0
  /\ comp.goal_cost_traj_ < ref.goal_cost_traj_

\* the sweep test with an equal cost replacing the incumbent
betterSweepTie(comp, best, ref) ==
  /\ comp.cost_ >= 0
  /\ (comp.cost_ <= best.cost_ \/ best.cost_ < 0)
  /\ comp.goal_cost_traj_ < ref.goal_cost_traj_

\* lines 723-724, 745-746, 776-777, 808-809
betterSweep(comp, best, ref) ==
  /\ comp.cost_ >= 0
  /\ (comp.cost_ < best.cost_ \/ best.cost_ < 0)
  /\ comp.goal_cost_traj_ < ref.goal_cost_traj_

\* lines 885-888
betterInPlace(comp, best, ref, vtheta_samp, dvtheta) ==
  /\ comp.cost_ >= 0
  /\ \/ (comp.cost_ < best.cost_ /\ comp.goal_cost_traj_ < best.goal_cost_traj_)
     \/ best.cost_ < 0
     \/ (best.yv_ # 0 /\ comp.goal_cost_traj_ < best.goal_cost_traj_
         /\ comp.cost_ < best.cost_)
  /\ outsideDeadband(vtheta_samp, dvtheta)
  /\ comp.goal_cost_traj_ < ref.goal_cost_traj_

better(cand, comp, best, ref, dvtheta) ==
  IF cand.tier = "inplace" THEN betterInPlace(comp, best, ref, cand.raw, dvtheta)
  ELSE betterSweep(comp, best, ref)

\* the two reusable buffers traj_one and traj_two and the pointers
\* best_traj and comp_traj into them
Other(b) == IF b = "one" THEN "two" ELSE "one"
bufOf(st, b) == IF b = "one" THEN st.traj_one ELSE st.traj_two
setBuf(st, b, t) ==
  IF b = "one" THEN [st EXCEPT !.traj_one = t] ELSE [st EXCEPT !.traj_two = t]

\* one iteration of a sweep loop: the candidate, simulated with result res,
\* is stored into *comp_traj and the pointers are swapped when it is better
considerCandidate(w, ref, st, cand, res) ==
  CHOOSE r \in
    {LET best == bufOf(st, st.best)
         take == better(cand, comp, best, ref, w.dvtheta)
         st1 == setBuf(st, Other(st.best), comp)
     IN [st1 EXCEPT
           !.best = IF take THEN Other(st.best) ELSE st.best,
           !.log = Append(st.log,
                     [tier |-> cand.tier, traj |-> comp, raw |-> cand.raw,
                      incumbent |-> best, taken |-> take, res |-> res])] :
     comp \in {storeTrajectory(bufOf(st, Other(st.best)), res)}} : TRUE

\* the sweep loops over the candidates cands from the k-th on
RECURSIVE sweep(_, _, _, _, _, _)
sweep(w, ref, st, cands, results, k) ==
  IF k > Len(cands) THEN st
  ELSE CHOOSE r \in
         {sweep(w, ref, nxt, cands, results, k + 1) :
            nxt \in {considerCandidate(w, ref, st, cands[k], results[k])}} : TRUE

\* the simulations the sweep loops make, one per candidate
candidateResults(c, env, in, cands) ==
  [k \in 1..Len(cands) |->
     trajectoryResult(c, env, in.x, in.y, in.theta, in.vx, in.vy, in.vtheta,
                      cands[k].vx_samp, cands[k].vy_samp, cands[k].vtheta_samp,
                      in.acc_x, in.acc_y, in.acc_theta, env.impossible_cost)]

(***************************************************************************)
(* createTrajectories: the oscillation guard.  g holds the members         *)
(* rotating_left ... stuck_right_strafe, prev_x_, prev_y_, escaping_,      *)
(* escape_x_, escape_y_ and escape_theta_.                                 *)
(***************************************************************************)
\* the commit that never raises a stuck flag
commitDirectionNoStuck(g, best) ==
  IF best.thetav_ < 0 THEN [g EXCEPT !.rotating_right = TRUE]
  ELSE IF best.thetav_ > 0 THEN [g EXCEPT !.rotating_left = TRUE]
  ELSE IF best.yv_ > 0 THEN [g EXCEPT !.strafe_right = TRUE]
  ELSE IF best.yv_ < 0 THEN [g EXCEPT !.strafe_left = TRUE]
  ELSE g

\* the commit with the two assignments of a direction exchanged: the stuck
\* flag is raised and the committed flag keeps its value
commitDirectionFlagsExchanged(g, best) ==
  IF best.thetav_ < 0 THEN [g EXCEPT !.stuck_right = TRUE]
  ELSE IF best.thetav_ > 0 THEN [g EXCEPT !.stuck_left = TRUE]
  ELSE IF best.yv_ > 0 THEN [g EXCEPT !.stuck_right_strafe = TRUE]
  ELSE IF best.yv_ < 0 THEN [g EXCEPT !.stuck_left_strafe = TRUE]
  ELSE g

\* lines 946-966
commitDirection(g, best) ==
  IF best.thetav_ < 0
  THEN [g EXCEPT !.stuck_right = g.stuck_right \/ g.rotating_right,
                 !.rotating_right = TRUE]
  ELSE IF best.thetav_ > 0
  THEN [g EXCEPT !.stuck_left = g.stuck_left \/ g.rotating_left,
                 !.rotating_left = TRUE]
  ELSE IF best.yv_ > 0
  THEN [g EXCEPT !.stuck_right_strafe = g.stuck_right_strafe \/ g.strafe_right,
                 !.strafe_right = TRUE]
  ELSE IF best.yv_ < 0
  THEN [g EXCEPT !.stuck_left_strafe = g.stuck_left_strafe \/ g.strafe_left,
                 !.strafe_left = TRUE]
  ELSE g

\* lines 1043-1063 (the second copy of the block, after the disabled
\* holonomic tier)
commitDirectionSecond(g, best) ==
  IF best.thetav_ < 0
  THEN [g EXCEPT !.stuck_right = g.stuck_right \/ g.rotating_right,
                 !.rotating_left = TRUE]
  ELSE IF best.thetav_ > 0
  THEN [g EXCEPT !.stuck_left = g.stuck_left \/ g.rotating_left,
                 !.rotating_right = TRUE]
  ELSE IF best.yv_ > 0
  THEN [g EXCEPT !.stuck_right_strafe = g.stuck_right_strafe \/ g.strafe_right,
                 !.strafe_left = TRUE]
  ELSE IF best.yv_ < 0
  THEN [g EXCEPT !.stuck_left_strafe = g.stuck_left_strafe \/ g.strafe_left,
                 !.strafe_right = TRUE]
  ELSE g

\* lines 969-970: set the position we must move a certain distance away from
anchorPosition(g, x, y) == [g EXCEPT !.prev_x_ = x, !.prev_y_ = y]

\* hypot(x - prev_x_, y - prev_y_) > oscillation_reset_dist_
farFromAnchor(c, g, x, y) ==
  hypot(x - g.prev_x_, y - g.prev_y_) > c.oscillation_reset_dist_

clearFlags(g) ==
  [g EXCEPT !.rotating_left = FALSE, !.rotating_right = FALSE,
            !.strafe_left = FALSE, !.strafe_right = FALSE,
            !.stuck_left = FALSE, !.stuck_right = FALSE,
            !.stuck_left_strafe = FALSE, !.stuck_right_strafe = FALSE]

\* the reset that clears the rotation flags and leaves the strafe flags
oscillationResetRotationOnly(c, g, x, y) ==
  IF hypot(x - g.prev_x_, y - g.prev_y_) > c.oscillation_reset_dist_
  THEN [g EXCEPT !.rotating_left = FALSE, !.rotating_right = FALSE,
                 !.stuck_left = FALSE, !.stuck_right = FALSE]
  ELSE g

\* lines 973-983, 1071-1081, 1111-1121
oscillationReset(c, g, x, y) ==
  IF farFromAnchor(c, g, x, y) THEN clearFlags(g) ELSE g

\* lines 985-989, 1083-1086, 1131-1136
escapeReset(c, g, x, y, theta) ==
  IF hypot(x - g.escape_x_, y - g.escape_y_) > c.escape_reset_dist_
     \/ Abs(shortest_angular_distance(g.escape_theta_, theta)) > c.escape_reset_theta_
  THEN [g EXCEPT !.escaping_ = FALSE]
  ELSE g

\* the guard update that commits a direction and moves the anchor whatever
\* the forward speed of the chosen trajectory
updateGuardAnchorAlways(c, g, best, x, y, theta) ==
  escapeReset(c, oscillationReset(c, anchorPosition(commitDirection(g, best), x, y),
                                  x, y), x, y, theta)

\* lines 943-990: the guard after a sweep found a legal trajectory
updateGuard(c, g, best, x, y, theta) ==
  LET g1 == IF ~(best.xv_ > 0) THEN anchorPosition(commitDirection(g, best), x, y)
            ELSE g
  IN escapeReset(c, oscillationReset(c, g1, x, y), x, y, theta)

\* lines 1041-1087
updateGuardSecond(c, g, best, x, y, theta) ==
  LET g1 == IF ~(best.xv_ > 0)
            THEN anchorPosition(commitDirectionSecond(g, best), x, y)
            ELSE g
  IN escapeReset(c, oscillationReset(c, g1, x, y), x, y, theta)

\* lines 1123-1129: the escape anchor (the assignment escaping_ = true is
\* commented out in the source)
escapeAnchor(g, best, x, y, theta) ==
  IF ~g.escaping_ /\ best.cost_ > COST_NO_PATH
  THEN [g EXCEPT !.escape_x_ = x, !.escape_y_ = y, !.escape_theta_ = theta]
  ELSE g

\* lines 1111-1136: the guard in the backup tier
updateGuardBackup(c, g, best, x, y, theta) ==
  escapeReset(c, escapeAnchor(oscillationReset(c, g, x, y), best, x, y, theta),
              x, y, theta)

(***************************************************************************)
(* createTrajectories: the backup tier (lines 1091-1147)                   *)
(***************************************************************************)
\* line 1099
betterBackup(comp, best) ==
  comp.cost_ >= 0 /\ (comp.cost_ < best.cost_ \/ best.cost_ < 0)

\* lines 1092-1109: simulate the backup trajectory into *comp_traj, swap
\* when it is better, then swap
backupSelect(c, env, in, st) ==
  LET comp == generateTrajectory(c, env, in.x, in.y, in.theta, in.vx, in.vy,
                in.vtheta, c.backup_vel_, 0, 0,
                in.acc_x, in.acc_y, in.acc_theta, env.impossible_cost,
                bufOf(st, Other(st.best)))
      st1 == setBuf(st, Other(st.best), comp)
      b1 == IF betterBackup(comp, bufOf(st, st.best)) THEN Other(st.best)
            ELSE st.best
  IN [st1 EXCEPT !.best = Other(b1)]

\* lines 1139-1141
backupCost(best) ==
  IF best.cost_ = COST_UNSET THEN [best EXCEPT !.cost_ = 1 * Scale] ELSE best

(***************************************************************************)
(* createTrajectories                                                      *)
(***************************************************************************)
\* lines 689-694
initBuffers(traj_one, traj_two) ==
  [traj_one |-> [traj_one EXCEPT !.cost_ = COST_UNSET],
   traj_two |-> [traj_two EXCEPT !.cost_ = COST_UNSET],
   best |-> "one", log |-> <<>>]

\* lines 706-708: current_pos_traj, a fresh Trajectory whose goal cost is
\* in.u_goal until a simulation that runs to its end assigns it
referenceTrajectory(c, env, in) ==
  generateTrajectory(c, env, in.x, in.y, in.theta, in.vx, in.vy, in.vtheta,
                     0, 0, 0, in.acc_x, in.acc_y, in.acc_theta,
                     env.impossible_cost, Trajectory(0, 0, 0, COST_UNSET, in.u_goal))

\* the selection in which a committed rotation direction vetoes the in-place
\* rotation the sweeps chose
selectTierVeto(c, env, in, w, ref, st, g) ==
  LET best == bufOf(st, st.best)
      vetoed == /\ ~(best.xv_ > 0)
                /\ \/ best.thetav_ < 0 /\ g.rotating_right
                   \/ best.thetav_ > 0 /\ g.rotating_left
  IN IF best.cost_ >= 0 /\ ~vetoed
     THEN [ret |-> best, tier |-> "sweep", st |-> st, w |-> w, ref |-> ref,
           g |-> updateGuard(c, g, best, in.x, in.y, in.theta),
           backup |-> <<>>]
     ELSE
     CHOOSE out \in
       {LET chosen == bufOf(sb, sb.best)
            fixed == backupCost(chosen)
        IN [ret |-> fixed, tier |-> "backup",
            st |-> setBuf(sb, sb.best, fixed), w |-> w, ref |-> ref,
            g |-> updateGuardBackup(c, g, chosen, in.x, in.y, in.theta),
            backup |-> <<bufOf(sb, Other(st.best))>>] :
        sb \in {backupSelect(c, env, in, st)}} : TRUE

\* lines 943-1147: what the call returns once the sweeps have run
selectTier(c, env, in, w, ref, st, g) ==
  LET best == bufOf(st, st.best)
  IN IF best.cost_ >= 0
     THEN [ret |-> best, tier |-> "sweep", st |-> st, w |-> w, ref |-> ref,
           g |-> updateGuard(c, g, best, in.x, in.y, in.theta),
           backup |-> <<>>]
     ELSE IF best.cost_ >= 0
     THEN [ret |-> best, tier |-> "second", st |-> st, w |-> w, ref |-> ref,
           g |-> updateGuardSecond(c, g, best, in.x, in.y, in.theta),
           backup |-> <<>>]
     ELSE
     CHOOSE out \in
       {LET chosen == bufOf(sb, sb.best)
            fixed == backupCost(chosen)
        IN [ret |-> fixed, tier |-> "backup",
            st |-> setBuf(sb, sb.best, fixed), w |-> w, ref |-> ref,
            g |-> updateGuardBackup(c, g, chosen, in.x, in.y, in.theta),
            backup |-> <<bufOf(sb, Other(st.best))>>] :
        sb \in {backupSelect(c, env, in, st)}} : TRUE

\* lines 643-1149.  (A value bound by \in is computed once.)
createTrajectories(c, fg, env, in, traj_one, traj_two, g) ==
  CHOOSE out \in
    {CHOOSE o2 \in
       {selectTier(c, env, in, wr[1], wr[2], st, g) :
          st \in {sweep(wr[1], wr[2], initBuffers(traj_one, traj_two), cands,
                        candidateResults(c, env, in, cands), 1) :
                    cands \in {sweepCandidates(c, wr[1])}}} : TRUE :
     wr \in {<<velocityWindow(c, fg, in.u_vel, in.x, in.y, in.vx, in.vy,
                              in.vtheta, in.acc_x, in.acc_y, in.acc_theta),
               referenceTrajectory(c, env, in)>>}} : TRUE

(***************************************************************************)
(* findBestPath                                                            *)
(***************************************************************************)
\* tf::createQuaternionFromYaw: a rotation holds its angle up to full turns
yawOfRotation(angle) ==
  IF -Pi <= angle /\ angle <= Pi THEN angle ELSE normalize_angle(angle)

\* lines 1211-1225
driveVelocities(best) ==
  IF best.cost_ < 0 THEN [x |-> 0, y |-> 0, yaw |-> yawOfRotation(0)]
  ELSE [x |-> best.xv_, y |-> best.yv_, yaw |-> yawOfRotation(best.thetav_)]

\* lines 1163-1173: the cells within the footprint of the robot
footprintCells(x, y) ==
  IF worldToMap(x, y).ok THEN {worldToMap(x, y).cell} ELSE {}

\* lines 1159-1177: the grids of a planning cycle
planningGrids(costmap, plan, x, y, u) ==
  [costmap |-> costmap, plan |-> plan, u |-> u,
   path_map |-> setTargetCells(costmap, footprintCells(x, y), plan),
   goal_map |-> setLocalGoal(costmap, plan),
   impossible_cost |-> obstacleCosts * Scale]

(***************************************************************************)
(* The configuration: the members that reconfigure and the constructor     *)
(* set.  A BaseLocalPlannerConfig is a record of the fields reconfigure    *)
(* reads.                                                                  *)
(***************************************************************************)
\* lines 59-145.  sim_period_ and meter_scoring_ are not assigned.
reconfigure(old, config) ==
  LET scale == IF old.meter_scoring_ THEN Resolution ELSE Scale
  IN [acc_lim_x_ |-> config.acc_lim_x,
      acc_lim_y_ |-> config.acc_lim_y,
      acc_lim_theta_ |-> config.acc_lim_theta,
      max_vel_x_ |-> config.max_vel_x,
      min_vel_x_ |-> config.min_vel_x,
      max_vel_y_ |-> config.max_vel_y,
      min_vel_y_ |-> config.min_vel_y,
      max_vel_th_ |-> config.max_vel_theta,
      min_vel_th_ |-> config.min_vel_theta,
      min_in_place_vel_th_ |-> config.min_in_place_vel_theta,
      sim_time_ |-> config.sim_time,
      sim_granularity_ |-> config.sim_granularity,
      angular_sim_granularity_ |-> config.angular_sim_granularity,
      pdist_scale_ |-> Mul(config.pdist_scale, scale),
      gdist_scale_ |-> Mul(config.gdist_scale, scale),
      occdist_scale_ |-> Mul(config.occdist_scale, scale),
      hdiff_scale_ |-> config.hdiff_scale,
      path_distance_max_ |-> config.path_distance_max,
      oscillation_reset_dist_ |-> config.oscillation_reset_dist,
      escape_reset_dist_ |-> config.escape_reset_dist,
      escape_reset_theta_ |-> config.escape_reset_theta,
      vx_samples_ |-> IF config.vx_samples <= 0 THEN 1 ELSE config.vx_samples,
      vy_samples_ |-> config.vy_samples,
      vtheta_samples_ |-> IF config.vtheta_samples <= 0 THEN 1
                          ELSE config.vtheta_samples,
      holonomic_robot_ |-> config.holonomic_robot,
      backup_vel_ |-> config.escape_vel,
      dwa_ |-> config.dwa,
      heading_scoring_ |-> config.heading_scoring,
      simple_attractor_ |-> config.simple_attractor,
      sim_period_ |-> old.sim_period_,
      meter_scoring_ |-> old.meter_scoring_]

\* lines 147-196: the constructor.  max_vel_y_, min_vel_y_, vy_samples_ and
\* meter_scoring_ are not in its initialiser list: they hold the
\* indeterminate values m.
construct(args, m) ==
  [acc_lim_x_ |-> args.acc_lim_x,
   acc_lim_y_ |-> args.acc_lim_y,
   acc_lim_theta_ |-> args.acc_lim_theta,
   max_vel_x_ |-> args.max_vel_x,
   min_vel_x_ |-> args.min_vel_x,
   max_vel_y_ |-> m.max_vel_y_,
   min_vel_y_ |-> m.min_vel_y_,
   max_vel_th_ |-> args.max_vel_theta,
   min_vel_th_ |-> args.min_vel_theta,
   min_in_place_vel_th_ |-> args.min_in_place_vel_theta,
   sim_time_ |-> args.sim_time,
   sim_granularity_ |-> args.sim_granularity,
   angular_sim_granularity_ |-> args.angular_sim_granularity,
   pdist_scale_ |-> args.pdist_scale,
   gdist_scale_ |-> args.gdist_scale,
   occdist_scale_ |-> args.occdist_scale,
   hdiff_scale_ |-> args.hdiff_scale,
   path_distance_max_ |-> args.path_distance_max,
   oscillation_reset_dist_ |-> args.oscillation_reset_dist,
   escape_reset_dist_ |-> args.escape_reset_dist,
   escape_reset_theta_ |-> args.escape_reset_theta,
   vx_samples_ |-> args.vx_samples,
   vy_samples_ |-> m.vy_samples_,
   vtheta_samples_ |-> args.vtheta_samples,
   holonomic_robot_ |-> args.holonomic_robot,
   backup_vel_ |-> args.escape_vel,
   dwa_ |-> args.dwa,
   heading_scoring_ |-> args.heading_scoring,
   simple_attractor_ |-> args.simple_attractor,
   sim_period_ |-> args.sim_period,
   meter_scoring_ |-> m.meter_scoring_]

\* lines 181-192
initialGuard ==
  [rotating_left |-> FALSE, rotating_right |-> FALSE,
   strafe_left |-> FALSE, strafe_right |-> FALSE,
   stuck_left |-> FALSE, stuck_right |-> FALSE,
   stuck_left_strafe |-> FALSE, stuck_right_strafe |-> FALSE,
   prev_x_ |-> 0, prev_y_ |-> 0,
   escaping_ |-> FALSE, escape_x_ |-> 0, escape_y_ |-> 0, escape_theta_ |-> 0]

\* lines 589-596
finalGoal(old, plan) ==
  IF Len(plan) > 0
  THEN [valid |-> TRUE, x |-> plan[Len(plan)].x, y |-> plan[Len(plan)].y]
  ELSE [old EXCEPT !.valid = FALSE]

(***************************************************************************)
(* The bounded environment: the costmap, the plans, the configurations,    *)
(* the poses and the velocities the operations are called with.            *)
(***************************************************************************)
MaxCycles == 2
MaxReconfigures == 1
MaxPlanUpdates == 1

Centre(cellIndex) == cellIndex * Scale + (Scale \div 2)
Pose(cx, cy, th) == [x |-> Centre(cx), y |-> Centre(cy), th |-> th]

\* a lethal cell on the middle row and a cell of cost 1 beside it
WallMap == [cell \in Cells |->
              IF cell = <<2, 1>> THEN LETHAL_OBSTACLE
              ELSE IF cell = <<1, 0>> THEN 1 ELSE 0]

EastPlan == <<Pose(0, 1, 0), Pose(1, 1, 0), Pose(2, 1, 0), Pose(3, 1, 0), Pose(4, 1, 0)>>
NorthPlan == <<Pose(1, 0, Scale), Pose(1, 1, Scale), Pose(1, 2, Scale)>>
Plans == {EastPlan, NorthPlan}

ForwardConfig ==
  [acc_lim_x |-> 12, acc_lim_y |-> 12, acc_lim_theta |-> 3,
   max_vel_x |-> 24, min_vel_x |-> 0, max_vel_y |-> 12, min_vel_y |-> -12,
   max_vel_theta |-> 12, min_vel_theta |-> -12, min_in_place_vel_theta |-> 6,
   sim_time |-> 24, sim_granularity |-> 6, angular_sim_granularity |-> 6,
   pdist_scale |-> 36, gdist_scale |-> 12, occdist_scale |-> 12, hdiff_scale |-> 12,
   path_distance_max |-> 0, oscillation_reset_dist |-> 6,
   escape_reset_dist |-> 12, escape_reset_theta |-> 12,
   vx_samples |-> 2, vy_samples |-> 5, vtheta_samples |-> 3,
   holonomic_robot |-> FALSE, escape_vel |-> -12, dwa |-> FALSE,
   heading_scoring |-> FALSE, simple_attractor |-> FALSE, sim_period |-> 6]

\* a holonomic robot with a sample count that reconfigure corrects
HolonomicConfig ==
  [ForwardConfig EXCEPT !.vx_samples = 0, !.holonomic_robot = TRUE]

\* a holonomic robot with heading-based scoring and a path-distance cap
HeadingConfig ==
  [ForwardConfig EXCEPT !.heading_scoring = TRUE, !.holonomic_robot = TRUE,
                        !.sim_granularity = 12, !.path_distance_max = 6]

\* a robot drawn blindly to the end of the plan, with no lateral samples
\* and a minimum forward speed
AttractorConfig ==
  [ForwardConfig EXCEPT !.simple_attractor = TRUE, !.vy_samples = 0,
                        !.min_vel_x = 12]

Configs == {ForwardConfig, HolonomicConfig, HeadingConfig, AttractorConfig}
\* the arguments the planner is constructed with
ConstructorArgs == {HolonomicConfig}

\* the values of the members the constructor leaves unassigned
MemberValues ==
  {[max_vel_y_ |-> 0, min_vel_y_ |-> 0, vy_samples_ |-> 0, meter_scoring_ |-> FALSE],
   [max_vel_y_ |-> 12, min_vel_y_ |-> -12, vy_samples_ |-> 5, meter_scoring_ |-> TRUE]}

\* the values of a double that is read before it is assigned
Indeterminate == {0, 100 * Scale}
\* the values of the locals min_vel_x and min_vel_y when they are read
\* before they are assigned: speeds that keep the simulations short
IndeterminateSpeed == {0, 3 * Scale}

StartPoses == {Pose(1, 1, 0), Pose(0, 1, -Scale)}
\* the robot's velocity: at rest, or coasting forward while turning left or
\* right
Velocities == {[vx |-> 0, vy |-> 0, vtheta |-> 0],
               [vx |-> 24, vy |-> 0, vtheta |-> 9],
               [vx |-> 24, vy |-> 0, vtheta |-> -12]}

(***************************************************************************)
(* The planner as a state machine                                          *)
(***************************************************************************)
VARIABLES
  cfg,            \* the configuration members
  global_plan_,   \* the reference path
  final_goal,     \* final_goal_position_valid_, final_goal_x_, final_goal_y_
  costmap,        \* the costmap the planner was constructed over
  traj_one,       \* the two reusable trajectory buffers
  traj_two,
  guard,          \* the oscillation and escape state
  last,           \* the most recent findBestPath call: inputs and results
  prev,           \* the call before it
  committed,      \* per direction: chosen by a cycle with no flag reset since
  calls,          \* number of calls made of each operation
  pc,             \* where the planning thread is: "idle" or in its "sweep"
  cyc,            \* the locals of the planning cycle under way
  query,          \* what the most recent query returned
  configuration_mutex_,  \* the thread that holds the mutex, or "free"
  reconf          \* where the reconfigure thread is, and its argument

vars == <<cfg, global_plan_, final_goal, costmap, traj_one, traj_two, guard,
          last, prev, committed, calls, pc, cyc, query,
          configuration_mutex_, reconf>>

Directions == {"left", "right", "strafe_left", "strafe_right"}

\* the direction the guard classifies a chosen trajectory as (lines 945-966)
directionOf(best) ==
  IF best.xv_ > 0 THEN "none"
  ELSE IF best.thetav_ < 0 THEN "right"
  ELSE IF best.thetav_ > 0 THEN "left"
  ELSE IF best.yv_ > 0 THEN "strafe_right"
  ELSE IF best.yv_ < 0 THEN "strafe_left"
  ELSE "none"

\* the planner constructed with the arguments args (lines 147-196)
Constructed(args) ==
  /\ costmap = WallMap
  /\ \E m \in MemberValues : cfg = construct(args, m)
  /\ global_plan_ = <<>>
  /\ final_goal = [valid |-> FALSE, x |-> 0, y |-> 0]
  /\ \E u \in Indeterminate :
       /\ traj_one = Trajectory(0, 0, 0, COST_UNSET, u)
       /\ traj_two = Trajectory(0, 0, 0, COST_UNSET, u)
  /\ guard = initialGuard
  /\ last = [n |-> 0]
  /\ prev = [n |-> 0]
  /\ committed = [d \in Directions |-> FALSE]
  /\ calls = [cycles |-> 0, reconfigures |-> 0, plans |-> 0, queries |-> 0]
  /\ pc = "idle"
  /\ cyc = [k |-> 0]
  /\ query = [op |-> "none"]
  /\ configuration_mutex_ = "free"
  /\ reconf = [pc |-> "idle"]

Init == \E args \in ConstructorArgs : Constructed(args)

\* updatePlan (lines 583-608)
UpdatePlan(new_plan) ==
  /\ calls.cycles < MaxCycles
  /\ calls.plans < MaxPlanUpdates
  /\ global_plan_' = new_plan
  /\ final_goal' = finalGoal(final_goal, new_plan)
  /\ calls' = [calls EXCEPT !.plans = @ + 1]
  /\ UNCHANGED <<cfg, costmap, traj_one, traj_two, guard, last, prev, committed,
                 pc, cyc, query,
                 configuration_mutex_, reconf>>

\* reconfigure (lines 59-145)
Reconfigure(config) ==
  /\ calls.cycles < MaxCycles
  /\ calls.reconfigures < MaxReconfigures
  /\ cfg' = reconfigure(cfg, config)
  /\ calls' = [calls EXCEPT !.reconfigures = @ + 1]
  /\ UNCHANGED <<global_plan_, final_goal, costmap, traj_one, traj_two, guard,
                 last, prev, committed, pc, cyc, query,
                 configuration_mutex_, reconf>>

\* the values current_pos_traj.goal_cost_traj_ can hold when the reference
\* trajectory is read: the simulated goal cost, or any value when the
\* simulation failed before assigning it
GoalValues(ref) == IF ref.cost_ < 0 THEN Indeterminate ELSE {0}
\* the values of the locals min_vel_x and min_vel_y before they are assigned
VelValues == IF final_goal.valid THEN {0} ELSE IndeterminateSpeed
\* the values read through the last element of an empty plan
PlanValues ==
  IF Len(global_plan_) = 0 /\ (cfg.heading_scoring_ \/ cfg.simple_attractor_)
  THEN Indeterminate ELSE {0}

\* the arguments of createTrajectories for a pose and a velocity
searchInput(pose, vel, u_goal, u_vel) ==
  [x |-> pose.x, y |-> pose.y, theta |-> pose.th,
   vx |-> vel.vx, vy |-> vel.vy, vtheta |-> vel.vtheta,
   acc_x |-> cfg.acc_lim_x_, acc_y |-> cfg.acc_lim_y_,
   acc_theta |-> cfg.acc_lim_theta_, u_goal |-> u_goal, u_vel |-> u_vel]

\* findBestPath (lines 1152-1228) with the createTrajectories call it makes
FindBestPath(pose, vel) ==
  /\ pc = "idle"
  /\ calls.cycles < MaxCycles
  /\ \E u_vel \in VelValues, u_plan \in PlanValues :
     \E env \in {planningGrids(costmap, global_plan_, pose.x, pose.y, u_plan)} :
     \E u_goal \in GoalValues(referenceTrajectory(cfg, env,
                                searchInput(pose, vel, 0, u_vel))) :
     \E in \in {searchInput(pose, vel, u_goal, u_vel)} :
     \E r \in {createTrajectories(cfg, final_goal, env, in, traj_one, traj_two,
                                  guard)} :
       LET moved == IF r.tier = "backup" THEN guard
                    ELSE IF ~(r.ret.xv_ > 0) THEN anchorPosition(guard, in.x, in.y)
                    ELSE guard
           reset == farFromAnchor(cfg, moved, in.x, in.y)
           sel == IF r.tier = "backup" THEN "none" ELSE directionOf(r.ret)
       IN /\ traj_one' = r.st.traj_one
          /\ traj_two' = r.st.traj_two
          /\ guard' = r.g
          /\ last' = [n |-> calls.cycles + 1,
                      key |-> [pose |-> pose, vel |-> vel, cfg |-> cfg,
                               plan |-> global_plan_],
                      env |-> env, in |-> in,
                      w |-> r.w, ref |-> r.ref, log |-> r.st.log, ret |-> r.ret,
                      tier |-> r.tier, backup |-> r.backup,
                      drive |-> driveVelocities(r.ret),
                      pre |-> guard, sel |-> sel, reset |-> reset,
                      preCommitted |-> committed,
                      preOne |-> traj_one, preTwo |-> traj_two]
          /\ prev' = IF last.n = 0 THEN last
                     ELSE [n |-> last.n, key |-> last.key, ret |-> last.ret]
          /\ committed' = IF reset THEN [d \in Directions |-> FALSE]
                          ELSE [d \in Directions |-> committed[d] \/ d = sel]
  /\ calls' = [calls EXCEPT !.cycles = @ + 1]
  /\ UNCHANGED <<cfg, global_plan_, final_goal, costmap, pc, cyc, query,
                 configuration_mutex_, reconf>>

Next ==
  \/ \E p \in Plans : UpdatePlan(p)
  \/ \E config \in Configs : Reconfigure(config)
  \/ \E pose \in StartPoses, vel \in Velocities : FindBestPath(pose, vel)

Spec == Init /\ [][Next]_vars

(***************************************************************************)
(* The queries: scoreTrajectory, checkTrajectory and getCellCosts.  They   *)
(* read the grids the last findBestPath call computed.                     *)
(***************************************************************************)
MaxQueries == 1

\* path_map_, goal_map_ and costmap_ as the last cycle left them, and the
\* reference path as it is now
queryGrids == [last.env EXCEPT !.plan = global_plan_]

\* scoreTrajectory (lines 626-638): the cost of one trajectory simulated
\* into a local Trajectory under the members' acceleration limits
scoreTrajectory(c, env, x, y, theta, vx, vy, vtheta, vx_samp, vy_samp, vtheta_samp) ==
  generateTrajectory(c, env, x, y, theta, vx, vy, vtheta,
                     vx_samp, vy_samp, vtheta_samp,
                     c.acc_lim_x_, c.acc_lim_y_, c.acc_lim_theta_,
                     obstacleCosts * Scale, Trajectory(0, 0, 0, COST_UNSET, 0)).cost_

\* checkTrajectory (lines 610-623)
checkTrajectory(c, env, x, y, theta, vx, vy, vtheta, vx_samp, vy_samp, vtheta_samp) ==
  scoreTrajectory(c, env, x, y, theta, vx, vy, vtheta,
                  vx_samp, vy_samp, vtheta_samp) >= 0

\* getCellCosts (lines 200-216); within holds the cells whose within_robot
\* mark the last cycle set
getCellCosts(c, env, within, cell) ==
  LET target_dist == env.path_map[cell]
      occ_cost == env.costmap[cell]
  IN IF cell \in within THEN [ok |-> FALSE]
     ELSE IF \/ target_dist = obstacleCosts
             \/ target_dist = unreachableCellCosts
             \/ occ_cost >= INSCRIBED_INFLATED_OBSTACLE
     THEN [ok |-> FALSE]
     ELSE [ok |-> TRUE, path_cost |-> target_dist,
           goal_cost |-> env.goal_map[cell], occ_cost |-> occ_cost,
           total_cost |-> c.pdist_scale_ * target_dist
                          + c.gdist_scale_ * env.goal_map[cell]
                          + c.occdist_scale_ * occ_cost]

\* the velocity samples a caller asks about
QuerySamples == {[vx |-> Scale, vy |-> 0, vtheta |-> 0],
                 [vx |-> 0, vy |-> 0, vtheta |-> -Scale]}
QueryCells == {<<0, 1>>, <<2, 1>>, <<2, 2>>}

ScoreTrajectory(pose, samp) ==
  /\ pc = "idle"
  /\ last.n > 0
  /\ calls.queries < MaxQueries
  /\ query' = [op |-> "scoreTrajectory",
               cost |-> scoreTrajectory(cfg, queryGrids, pose.x, pose.y, pose.th,
                                        0, 0, 0, samp.vx, samp.vy, samp.vtheta)]
  /\ calls' = [calls EXCEPT !.queries = @ + 1]
  /\ UNCHANGED <<cfg, global_plan_, final_goal, costmap, traj_one, traj_two,
                 guard, last, prev, committed, pc, cyc,
                 configuration_mutex_, reconf>>

CheckTrajectory(pose, samp) ==
  /\ pc = "idle"
  /\ last.n > 0
  /\ calls.queries < MaxQueries
  /\ query' = [op |-> "checkTrajectory",
               ok |-> checkTrajectory(cfg, queryGrids, pose.x, pose.y, pose.th,
                                      0, 0, 0, samp.vx, samp.vy, samp.vtheta)]
  /\ calls' = [calls EXCEPT !.queries = @ + 1]
  /\ UNCHANGED <<cfg, global_plan_, final_goal, costmap, traj_one, traj_two,
                 guard, last, prev, committed, pc, cyc,
                 configuration_mutex_, reconf>>

GetCellCosts(cell) ==
  /\ pc = "idle"
  /\ last.n > 0
  /\ calls.queries < MaxQueries
  /\ query' = [op |-> "getCellCosts",
               costs |-> getCellCosts(cfg, queryGrids,
                                      footprintCells(last.in.x, last.in.y), cell)]
  /\ calls' = [calls EXCEPT !.queries = @ + 1]
  /\ UNCHANGED <<cfg, global_plan_, final_goal, costmap, traj_one, traj_two,
                 guard, last, prev, committed, pc, cyc,
                 configuration_mutex_, reconf>>

\* the velocities the cycles start from while queries are made
QueryVelocities == {[vx |-> 0, vy |-> 0, vtheta |-> 0]}

NextQueries ==
  \/ \E p \in Plans : UpdatePlan(p)
  \/ \E config \in Configs : Reconfigure(config)
  \/ \E pose \in StartPoses, vel \in QueryVelocities : FindBestPath(pose, vel)
  \/ \E pose \in StartPoses, samp \in QuerySamples : ScoreTrajectory(pose, samp)
  \/ \E pose \in StartPoses, samp \in QuerySamples : CheckTrajectory(pose, samp)
  \/ \E cell \in QueryCells : GetCellCosts(cell)

SpecQueries == Init /\ [][NextQueries]_vars

(***************************************************************************)
(* The procedures called on their own: headingDiff over the points of the  *)
(* map and the poses of the plan, lineCost over the cells of the map.      *)
(***************************************************************************)
\* the simulated points: the cell centres and the points half way between
HeadingPoints ==
  {<<(Scale \div 2) * i, (Scale \div 2) * j>> : i \in 1..(2 * SizeX - 1), j \in 1..(2 * SizeY - 1)}
HeadingAngles == {0, Scale, -Scale}

\* lineCost, the loop of lines 547-568 from the pixel curpixel on: b holds
\* the increments and the fraction of lines 509-545, cells the cells scored
\* so far
RECURSIVE lineWalk(_, _, _, _, _, _, _, _)
lineWalk(grid, b, x, y, num, line_cost, cells, curpixel) ==
  IF curpixel > b.numpixels THEN [cost |-> line_cost, cells |-> cells]
  ELSE
  LET point_cost == pointCost(grid, <<x, y>>)
      scored == Append(cells, <<x, y>>)
      carry == num + b.numadd >= b.den
  IN IF point_cost < 0 THEN [cost |-> -Scale, cells |-> scored]
     ELSE lineWalk(grid, b,
                   x + (IF carry THEN b.xinc1 ELSE 0) + b.xinc2,
                   y + (IF carry THEN b.yinc1 ELSE 0) + b.yinc2,
                   IF carry THEN num + b.numadd - b.den ELSE num + b.numadd,
                   IF line_cost < point_cost THEN point_cost ELSE line_cost,
                   scored, curpixel + 1)

\* the walk that returns the cost of the last cell scored
lineCostOfLastCell(grid, x0, x1, y0, y1) ==
  LET deltax == Abs(x1 - x0)
      deltay == Abs(y1 - y0)
      xinc == IF x1 >= x0 THEN 1 ELSE -1
      yinc == IF y1 >= y0 THEN 1 ELSE -1
      b == IF deltax >= deltay
           THEN [xinc1 |-> 0, xinc2 |-> xinc, yinc1 |-> yinc, yinc2 |-> 0,
                 den |-> deltax, numadd |-> deltay, numpixels |-> deltax]
           ELSE [xinc1 |-> xinc, xinc2 |-> 0, yinc1 |-> 0, yinc2 |-> yinc,
                 den |-> deltay, numadd |-> deltax, numpixels |-> deltay]
      r == lineWalk(grid, b, x0, y0, b.den \div 2, 0, <<>>, 0)
  IN IF r.cost < 0 THEN r
     ELSE [r EXCEPT !.cost = pointCost(grid, r.cells[Len(r.cells)])]

\* lineCost (lines 496-571): the cost returned and the cells scored
lineCost(grid, x0, x1, y0, y1) ==
  LET deltax == Abs(x1 - x0)
      deltay == Abs(y1 - y0)
      xinc == IF x1 >= x0 THEN 1 ELSE -1
      yinc == IF y1 >= y0 THEN 1 ELSE -1
      b == IF deltax >= deltay
           THEN [xinc1 |-> 0, xinc2 |-> xinc, yinc1 |-> yinc, yinc2 |-> 0,
                 den |-> deltax, numadd |-> deltay, numpixels |-> deltax]
           ELSE [xinc1 |-> xinc, xinc2 |-> 0, yinc1 |-> 0, yinc2 |-> yinc,
                 den |-> deltay, numadd |-> deltax, numpixels |-> deltay]
  IN lineWalk(grid, b, x0, y0, b.den \div 2, 0, <<>>, 0)

\* lineCost called for the end points from and to
LineCost(from, to) ==
  /\ pc = "idle"
  /\ query' = [op |-> "lineCost", x0 |-> from[1], y0 |-> from[2],
               x1 |-> to[1], y1 |-> to[2],
               out |-> lineCost(costmap, from[1], to[1], from[2], to[2])]
  /\ UNCHANGED <<cfg, global_plan_, final_goal, costmap, traj_one, traj_two,
                 guard, last, prev, committed, calls, pc, cyc,
                 configuration_mutex_, reconf>>

\* headingDiff (lines 429-475) called for the point pt and the heading
HeadingDiff(pt, heading) ==
  /\ pc = "idle"
  /\ \E u \in (IF Len(global_plan_) = 0 THEN Indeterminate ELSE {0}) :
       query' = [op |-> "headingDiff", plan |-> global_plan_,
                 x |-> pt[1], y |-> pt[2], heading |-> heading,
                 out |-> headingDiff(global_plan_, pt[1], pt[2], heading, u)]
  /\ UNCHANGED <<cfg, global_plan_, final_goal, costmap, traj_one, traj_two,
                 guard, last, prev, committed, calls, pc, cyc,
                 configuration_mutex_, reconf>>

NextProcedures ==
  \/ \E p \in Plans : UpdatePlan(p)
  \/ \E pt \in HeadingPoints, heading \in HeadingAngles : HeadingDiff(pt, heading)
  \/ \E from \in Cells, to \in Cells : LineCost(from, to)

SpecProcedures == Init /\ [][NextProcedures]_vars

(***************************************************************************)
(* The planner of a robot that coasts toward the end of the plan, with a   *)
(* fine angular step.                                                      *)
(***************************************************************************)
FineAngularConfig == [ForwardConfig EXCEPT !.angular_sim_granularity = 2]
CoastingConfigs == {FineAngularConfig}
CoastingPoses == {Pose(3, 1, 0), Pose(1, 1, 0)}

NextCoasting ==
  \/ \E p \in Plans : UpdatePlan(p)
  \/ \E config \in CoastingConfigs : Reconfigure(config)
  \/ \E pose \in CoastingPoses, vel \in Velocities : FindBestPath(pose, vel)

SpecCoasting == Init /\ [][NextCoasting]_vars

(***************************************************************************)
(* The planning thread and the reconfigure thread running concurrently.    *)
(* reconfigure holds configuration_mutex_ for its whole body (line 63) and *)
(* generateTrajectory for its whole body (line 230); findBestPath and      *)
(* createTrajectories take no lock.  A step below is one stretch of the    *)
(* planning cycle between two points where the mutex is free, so a         *)
(* reconfigure can run between any two steps.  seen collects the values of *)
(* the configuration members the steps of one cycle have read.             *)
(***************************************************************************)
\* the configurations asked for while a cycle may be under way: they keep
\* the sample counts and the drive type, so the loops of a cycle enumerate
\* the candidates of sweepCandidates whichever of them is in force
ConcurrentConfigs ==
  {[ForwardConfig EXCEPT !.pdist_scale = 12, !.max_vel_x = 12]}

\* findBestPath up to the first sweep (lines 1152-1180, 646-708): the grids,
\* the window read from the members without the lock, the buffers and the
\* reference trajectory
BeginCycle(pose, vel) ==
  /\ pc = "idle"
  /\ calls.cycles < MaxCycles
  /\ \E u_vel \in VelValues, u_plan \in PlanValues :
     \E env \in {planningGrids(costmap, global_plan_, pose.x, pose.y, u_plan)} :
     \E u_goal \in GoalValues(referenceTrajectory(cfg, env,
                                searchInput(pose, vel, 0, u_vel))) :
     \E in \in {searchInput(pose, vel, u_goal, u_vel)} :
       cyc' = [k |-> 1, pose |-> pose, vel |-> vel, env |-> env, in |-> in,
               w |-> velocityWindow(cfg, final_goal, in.u_vel, in.x, in.y,
                                    in.vx, in.vy, in.vtheta,
                                    in.acc_x, in.acc_y, in.acc_theta),
               ref |-> referenceTrajectory(cfg, env, in),
               st |-> initBuffers(traj_one, traj_two),
               seen |-> {cfg}]
  /\ pc' = "sweep"
  /\ UNCHANGED <<cfg, global_plan_, final_goal, costmap, traj_one, traj_two,
                 guard, last, prev, committed, calls, query,
                 configuration_mutex_, reconf>>

\* one iteration of a sweep loop (lines 716-940): the loop test, the
\* generateTrajectory call under the lock and the comparison
SimulateCandidate ==
  /\ pc = "sweep"
  /\ cyc.k <= Len(sweepCandidates(cfg, cyc.w))
  /\ \E cand \in {sweepCandidates(cfg, cyc.w)[cyc.k]} :
     \E res \in {trajectoryResult(cfg, cyc.env, cyc.in.x, cyc.in.y, cyc.in.theta,
                   cyc.in.vx, cyc.in.vy, cyc.in.vtheta,
                   cand.vx_samp, cand.vy_samp, cand.vtheta_samp,
                   cyc.in.acc_x, cyc.in.acc_y, cyc.in.acc_theta,
                   cyc.env.impossible_cost)} :
       cyc' = [cyc EXCEPT !.k = @ + 1,
                          !.st = considerCandidate(cyc.w, cyc.ref, cyc.st, cand, res),
                          !.seen = @ \cup {cfg}]
  /\ UNCHANGED <<cfg, global_plan_, final_goal, costmap, traj_one, traj_two,
                 guard, last, prev, committed, calls, pc, query,
                 configuration_mutex_, reconf>>

\* the rest of the cycle once the loops have ended (lines 943-1147,
\* 1182-1228)
FinishCycle ==
  /\ pc = "sweep"
  /\ cyc.k > Len(sweepCandidates(cfg, cyc.w))
  /\ \E r \in {selectTier(cfg, cyc.env, cyc.in, cyc.w, cyc.ref, cyc.st, guard)} :
       /\ traj_one' = r.st.traj_one
       /\ traj_two' = r.st.traj_two
       /\ guard' = r.g
       /\ last' = [n |-> calls.cycles + 1, pose |-> cyc.pose, vel |-> cyc.vel,
                   w |-> r.w, ref |-> r.ref, log |-> r.st.log, ret |-> r.ret,
                   tier |-> r.tier, drive |-> driveVelocities(r.ret),
                   seen |-> cyc.seen \cup {cfg}]
  /\ pc' = "idle"
  /\ cyc' = [k |-> 0]
  /\ calls' = [calls EXCEPT !.cycles = @ + 1]
  /\ UNCHANGED <<cfg, global_plan_, final_goal, costmap, prev, committed, query,
                 configuration_mutex_, reconf>>

NextConcurrent ==
  \/ \E p \in Plans : pc = "idle" /\ UpdatePlan(p)
  \/ \E config \in ConcurrentConfigs : Reconfigure(config)
  \/ \E pose \in StartPoses, vel \in Velocities : BeginCycle(pose, vel)
  \/ SimulateCandidate
  \/ FinishCycle

SpecConcurrent == Constructed(ForwardConfig) /\ [][NextConcurrent]_vars

(***************************************************************************)
(* The same two threads with configuration_mutex_ made explicit.           *)
(* reconfigure takes the mutex (line 63) and then writes the members one   *)
(* after the other (lines 65-145): the write of the limits and the write   *)
(* of the remaining members are separate steps here, so a thread that did  *)
(* not wait for the mutex would read a half-written configuration.         *)
(* generateTrajectory takes the mutex as its first statement (line 230)    *)
(* and holds it until it returns; its caller createTrajectories holds no   *)
(* lock while it reads the members, builds the window and passes the       *)
(* acceleration limits and the sample on as arguments (lines 646-708,      *)
(* 1181-1183).                                                             *)
(***************************************************************************)
\* boost::mutex::scoped_lock l(configuration_mutex_) cannot be entered
\* without waiting
scopedLockAbsent(m, who) == TRUE

\* boost::mutex::scoped_lock l(configuration_mutex_) (lines 63, 230): the
\* thread who enters when no thread holds the mutex m, and waits otherwise
scopedLock(m, who) == m = "free"

\* the members reconfigure writes first (lines 65-77)
LimitMembers ==
  {"acc_lim_x_", "acc_lim_y_", "acc_lim_theta_", "max_vel_x_", "min_vel_x_",
   "max_vel_y_", "min_vel_y_", "max_vel_th_", "min_vel_th_",
   "min_in_place_vel_th_"}

\* the members after the writes of lines 65-77 and before those of 79-145
writeLimits(old, config) ==
  [f \in DOMAIN old |->
     IF f \in LimitMembers THEN reconfigure(old, config)[f] ELSE old[f]]

\* the configurations asked for: they change a limit the caller passes to
\* generateTrajectory as an argument and a weight generateTrajectory reads
MutexConfigs ==
  {[ForwardConfig EXCEPT !.acc_lim_x = 24, !.pdist_scale = 12]}

\* reconfigure up to its lock (lines 59-63)
ReconfigureEnter(config) ==
  /\ reconf.pc = "idle"
  /\ calls.cycles < MaxCycles
  /\ calls.reconfigures < MaxReconfigures
  /\ scopedLock(configuration_mutex_, "reconfigure")
  /\ configuration_mutex_' = "reconfigure"
  /\ reconf' = [pc |-> "limits", config |-> config]
  /\ UNCHANGED <<cfg, global_plan_, final_goal, costmap, traj_one, traj_two,
                 guard, last, prev, committed, calls, pc, cyc, query>>

\* the writes of the limits (lines 65-77)
ReconfigureLimits ==
  /\ reconf.pc = "limits"
  /\ cfg' = writeLimits(cfg, reconf.config)
  /\ reconf' = [reconf EXCEPT !.pc = "rest"]
  /\ UNCHANGED <<global_plan_, final_goal, costmap, traj_one, traj_two, guard,
                 last, prev, committed, calls, pc, cyc, query,
                 configuration_mutex_>>

\* the remaining writes and the return, which releases the mutex
\* (lines 79-146)
ReconfigureRest ==
  /\ reconf.pc = "rest"
  /\ cfg' = reconfigure(cfg, reconf.config)
  /\ reconf' = [pc |-> "idle"]
  /\ configuration_mutex_' = "free"
  /\ calls' = [calls EXCEPT !.reconfigures = @ + 1]
  /\ UNCHANGED <<global_plan_, final_goal, costmap, traj_one, traj_two, guard,
                 last, prev, committed, pc, cyc, query>>

\* findBestPath up to the first sweep; the reference trajectory is a
\* generateTrajectory call (line 707), so the step needs the mutex
LockedBeginCycle(pose, vel) ==
  /\ scopedLock(configuration_mutex_, "planner")
  /\ BeginCycle(pose, vel)

\* the loop test of a sweep and the entry of generateTrajectory
\* (lines 716-940, 230)
GenerateEnter ==
  /\ pc = "sweep"
  /\ cyc.k <= Len(sweepCandidates(cfg, cyc.w))
  /\ scopedLock(configuration_mutex_, "planner")
  /\ configuration_mutex_' = "planner"
  /\ pc' = "generate"
  /\ UNCHANGED <<cfg, global_plan_, final_goal, costmap, traj_one, traj_two,
                 guard, last, prev, committed, calls, cyc, query, reconf>>

\* the body of generateTrajectory for the candidate (lines 231-427), its
\* return, which releases the mutex, and the comparison in the caller;
\* under is the value of the members the body has read
GenerateTrajectory ==
  /\ pc = "generate"
  /\ \E cand \in {sweepCandidates(cfg, cyc.w)[cyc.k]} :
     \E res \in {trajectoryResult(cfg, cyc.env, cyc.in.x, cyc.in.y, cyc.in.theta,
                   cyc.in.vx, cyc.in.vy, cyc.in.vtheta,
                   cand.vx_samp, cand.vy_samp, cand.vtheta_samp,
                   cyc.in.acc_x, cyc.in.acc_y, cyc.in.acc_theta,
                   cyc.env.impossible_cost)} :
       cyc' = [k |-> cyc.k + 1, pose |-> cyc.pose, vel |-> cyc.vel,
               env |-> cyc.env, in |-> cyc.in, w |-> cyc.w, ref |-> cyc.ref,
               st |-> considerCandidate(cyc.w, cyc.ref, cyc.st, cand, res),
               seen |-> cyc.seen \cup {cfg}, under |-> cfg]
  /\ configuration_mutex_' = "free"
  /\ pc' = "sweep"
  /\ UNCHANGED <<cfg, global_plan_, final_goal, costmap, traj_one, traj_two,
                 guard, last, prev, committed, calls, query, reconf>>

\* the rest of the cycle; the backup tier is a generateTrajectory call
\* (line 1098), so the step needs the mutex
LockedFinishCycle ==
  /\ scopedLock(configuration_mutex_, "planner")
  /\ FinishCycle

NextMutex ==
  \/ \E p \in Plans : pc = "idle" /\ UpdatePlan(p)
  \/ \E config \in MutexConfigs : ReconfigureEnter(config)
  \/ ReconfigureLimits
  \/ ReconfigureRest
  \/ \E pose \in StartPoses, vel \in Velocities : LockedBeginCycle(pose, vel)
  \/ GenerateEnter
  \/ GenerateTrajectory
  \/ LockedFinishCycle

SpecMutex == Constructed(ForwardConfig) /\ [][NextMutex]_vars

(***************************************************************************)
(* Properties of a planning cycle.  last records the most recent           *)
(* findBestPath call: the window w, the reference trajectory ref, the log  *)
(* of the candidates in enumeration order (each with the incumbent it was  *)
(* compared to and whether it replaced it), the returned trajectory ret,   *)
(* the tier that returned it and the command drive handed to the caller.   *)
(***************************************************************************)
Called == last.n > 0
RefGoal == last.ref.goal_cost_traj_
LogIdx == 1..Len(last.log)
ZeroCommand == [x |-> 0, y |-> 0, yaw |-> 0]
BackupCommand == [x |-> last.key.cfg.backup_vel_, y |-> 0, yaw |-> 0]
\* admissible and strictly closer to the goal than the reference
BeatsReference(t) == t.cost_ >= 0 /\ t.goal_cost_traj_ < RefGoal

\* C1: findBestPath emits the zero velocity command exactly when the
\* returned trajectory has a negative cost; in every other case the command
\* is the returned trajectory's sampled velocity (xv, yv, thetav).
C1_ZeroCommandExactlyWhenInadmissible ==
  Called =>
    /\ (last.drive = ZeroCommand) <=> (last.ret.cost_ < 0)
    /\ last.ret.cost_ >= 0 =>
         last.drive = [x |-> last.ret.xv_, y |-> last.ret.yv_,
                       yaw |-> last.ret.thetav_]

\* C3: a trajectory returned by a tier other than the backup tier has a goal
\* cost strictly below the reference trajectory's, and no candidate whose
\* goal cost is at or above the reference's is ever selected in those tiers.
C3_NoNetProgressBar ==
  Called =>
    /\ last.tier # "backup" =>
         last.ret.goal_cost_traj_ < RefGoal
    /\ \A k \in LogIdx :
         last.log[k].taken => last.log[k].traj.goal_cost_traj_ < RefGoal

\* a sweep returned although a cheaper admissible candidate was simulated
\* that made no progress towards the goal
C3_CheaperCandidateBarred ==
  /\ Called
  /\ last.tier = "sweep"
  /\ \E k \in LogIdx :
       /\ last.log[k].traj.cost_ >= 0
       /\ last.log[k].traj.cost_ < last.ret.cost_
       /\ last.log[k].traj.goal_cost_traj_ >= RefGoal

\* C4: a call that reaches the backup tier returns the backup trajectory,
\* sampled at (backup_vel, 0, 0), with a non-negative cost, whatever the
\* backup simulation reported, so the robot is commanded to reverse.
C4_BackupReturnsBackupTrajectory ==
  Called /\ last.tier = "backup" =>
    /\ last.ret.xv_ = last.key.cfg.backup_vel_
    /\ last.ret.yv_ = 0
    /\ last.ret.thetav_ = 0
    /\ last.ret.cost_ >= 0
    /\ last.drive = BackupCommand

\* C5: the backup trajectory is simulated exactly when every candidate of
\* the sweeps has a negative cost.
C5_BackupIffAllInadmissible ==
  Called =>
    (last.tier = "backup" <=> \A k \in LogIdx : last.log[k].traj.cost_ < 0)

\* a candidate that can replace an unset incumbent: admissible, closer to
\* the goal than the reference and, for an in-place rotation, sampled
\* outside the dead band of one sample step around zero
Accepted(e) ==
  /\ BeatsReference(e.traj)
  /\ e.tier = "inplace" => outsideDeadband(e.raw, last.w.dvtheta)

\* C5 (amended): the backup trajectory is simulated exactly when no
\* candidate of the sweeps was accepted.
C5_BackupIffNoneAccepted ==
  Called =>
    (last.tier = "backup" <=> \A k \in LogIdx : ~Accepted(last.log[k]))

\* the backup tier was reached although a candidate was admissible
C5_BackupWithAdmissibleCandidate ==
  /\ Called
  /\ last.tier = "backup"
  /\ \E k \in LogIdx : last.log[k].traj.cost_ >= 0

\* C6: a trajectory returned by a sweep costs no more than any simulated
\* candidate, in-place rotations included, that is admissible and has a
\* goal cost below the reference's.
C6_ReturnIsCheapestQualifying ==
  Called /\ last.tier = "sweep" =>
    \A k \in LogIdx :
      BeatsReference(last.log[k].traj) =>
        last.ret.cost_ <= last.log[k].traj.cost_

\* C6 (amended): a trajectory returned by a sweep costs no more than any
\* simulated translating, turning or strafing candidate that is admissible
\* and has a goal cost below the reference's.
C6_ReturnIsCheapestQualifyingSweep ==
  Called /\ last.tier = "sweep" =>
    \A k \in LogIdx :
      last.log[k].tier # "inplace" /\ BeatsReference(last.log[k].traj) =>
        last.ret.cost_ <= last.log[k].traj.cost_

\* a sweep returned a candidate that replaced a dearer accepted one
C6_CheaperCandidateReplaced ==
  /\ Called
  /\ last.tier = "sweep"
  /\ \E k \in LogIdx :
       /\ last.log[k].taken
       /\ last.log[k].incumbent.cost_ >= 0
       /\ last.log[k].tier # "inplace"

\* the conditions of a tier's acceptance test other than the comparison of
\* costs, for the candidate e against the incumbent it met
MeetsTierConditions(e) ==
  /\ Accepted(e)
  /\ e.tier = "inplace" /\ e.incumbent.cost_ >= 0 =>
       e.traj.goal_cost_traj_ < e.incumbent.goal_cost_traj_

CommittedFlag(g, d) ==
  IF d = "left" THEN g.rotating_left
  ELSE IF d = "right" THEN g.rotating_right
  ELSE IF d = "strafe_left" THEN g.strafe_left
  ELSE g.strafe_right

StuckFlag(g, d) ==
  IF d = "left" THEN g.stuck_left
  ELSE IF d = "right" THEN g.stuck_right
  ELSE IF d = "strafe_left" THEN g.stuck_left_strafe
  ELSE g.stuck_right_strafe

AllFlagsClear(g) ==
  \A d \in Directions : ~CommittedFlag(g, d) /\ ~StuckFlag(g, d)

C9_StuckOnSecondSelection ==
  Called /\ last.sel # "none" =>
    /\ CommittedFlag(guard, last.sel)
    /\ last.preCommitted[last.sel] => StuckFlag(guard, last.sel)
    /\ AllFlagsClear(last.pre) =>
         /\ \A d \in Directions : ~StuckFlag(guard, d)
         /\ \A d \in Directions \ {last.sel} : ~CommittedFlag(guard, d)

\* two consecutive cycles selected the same direction with no reset
\* between them and the second raised the stuck flag
C9_SecondSelectionStuck ==
  /\ Called
  /\ last.sel # "none"
  /\ last.preCommitted[last.sel]
  /\ ~StuckFlag(last.pre, last.sel)
  /\ StuckFlag(guard, last.sel)

\* the robot is farther than oscillation_reset_dist from the anchor the
\* guard held when the call started
FarFromStoredAnchor ==
  farFromAnchor(last.key.cfg, last.pre, last.key.pose.x, last.key.pose.y)

\* C10: at the end of a call in which the robot is farther than
\* oscillation_reset_dist from the anchor stored before the call, the four
\* committed flags and the four stuck flags are false, whatever trajectory
\* the call selected.
C10_FarFromAnchorClearsFlags ==
  Called /\ FarFromStoredAnchor => AllFlagsClear(guard)

\* C10 (amended): the same, for a call that returns a trajectory with
\* forward speed from a sweep or that reaches the backup tier.
C10_FarFromAnchorClearsFlagsUnlessAnchored ==
  /\ Called
  /\ FarFromStoredAnchor
  /\ last.tier = "backup" \/ last.ret.xv_ > 0
  => AllFlagsClear(guard)

\* a call far from the stored anchor cleared a flag that was set
C10_FlagsCleared ==
  /\ Called
  /\ FarFromStoredAnchor
  /\ last.tier = "backup" \/ last.ret.xv_ > 0
  /\ ~AllFlagsClear(last.pre)
  /\ AllFlagsClear(guard)

\* C2: with reconfigure running concurrently, every read of the
\* configuration made by one planning cycle, for the window and for each
\* candidate it simulates, sees one and the same configuration.
C2_OneSnapshotPerCycle ==
  /\ pc = "sweep" => Cardinality(cyc.seen) = 1
  /\ Called => Cardinality(last.seen) = 1

(***************************************************************************)
(* The escape latch                                                        *)
(***************************************************************************)
\* the robot is past escape_reset_dist_ or escape_reset_theta_ from the
\* escape anchor of the guard g
PastEscapeAnchor(g) ==
  \/ hypot(last.key.pose.x - g.escape_x_, last.key.pose.y - g.escape_y_)
       > last.key.cfg.escape_reset_dist_
  \/ Abs(shortest_angular_distance(g.escape_theta_, last.key.pose.th))
       > last.key.cfg.escape_reset_theta_

\* C11: a cycle that reaches the backup tier with an outcome other than the
\* no-path sentinel while the planner is not escaping leaves the planner
\* escaping, anchored at the current pose and heading; a cycle that starts
\* escaping and is not past the reset thresholds from the anchor leaves the
\* planner escaping, and one that is past them clears the latch.
C11_EscapeLatchEntered ==
  Called =>
    /\ /\ last.tier = "backup"
       /\ ~last.pre.escaping_
       /\ last.ret.cost_ # COST_NO_PATH
       => /\ guard.escaping_
          /\ guard.escape_x_ = last.key.pose.x
          /\ guard.escape_y_ = last.key.pose.y
          /\ guard.escape_theta_ = last.key.pose.th
    /\ last.pre.escaping_ =>
         (guard.escaping_ <=> ~PastEscapeAnchor(last.pre))

(***************************************************************************)
(* Properties of one simulation.  Each entry of last.log carries res, the  *)
(* simulation of its candidate.  The poses of the simulation are computed  *)
(* here from the kinematics alone and each is classified on its own.       *)
(***************************************************************************)
\* the parameters and the first loop state of the simulation res
SimParams(res) ==
  [num_steps |-> res.num_steps,
   dt |-> DivT(last.key.cfg.sim_time_, res.num_steps),
   vx_samp |-> res.xv_, vy_samp |-> res.yv_, vtheta_samp |-> res.thetav_,
   acc_x |-> last.in.acc_x, acc_y |-> last.in.acc_y,
   acc_theta |-> last.in.acc_theta,
   impossible_cost |-> last.env.impossible_cost]
SimStart ==
  [x_i |-> last.in.x, y_i |-> last.in.y, theta_i |-> last.in.theta,
   vx_i |-> last.in.vx, vy_i |-> last.in.vy, vtheta_i |-> last.in.vtheta,
   path_dist |-> 0, goal_dist |-> 0, occ_cost |-> 0, heading_diff |-> 0]

OffMap(s) == ~worldToMap(s.x_i, s.y_i).ok
Collides(s) ==
  footprintCost(last.env.costmap, s.x_i, s.y_i, s.theta_i) < 0
\* the path and goal distances step i reads at s, if it reads them
ReadsDistances(res, i) ==
  /\ ~last.key.cfg.simple_attractor_
  /\ last.key.cfg.heading_scoring_ => i = res.num_steps - 1
DistancesRead(s) ==
  IF last.key.cfg.heading_scoring_
  THEN LET h == headingDiff(last.env.plan, s.x_i, s.y_i, s.theta_i, last.env.u)
       IN <<h.path_dist, h.goal_dist>>
  ELSE LET cell == worldToMap(s.x_i, s.y_i).cell
       IN <<last.env.path_map[cell] * Scale, last.env.goal_map[cell] * Scale>>
Infeasible(res, s, i) ==
  /\ ReadsDistances(res, i)
  /\ \E d \in {DistancesRead(s)} :
       last.env.impossible_cost <= d[1] \/ last.env.impossible_cost <= d[2]

\* step i of the simulation res, started in the loop state s, fails a check
Fails(res, s, i) == OffMap(s) \/ Collides(s) \/ Infeasible(res, s, i)

\* the first step from step i on, started in the loop state s, that fails a
\* check, with its loop state: <<>> when every step passes
RECURSIVE FirstFailing(_, _, _, _)
FirstFailing(res, p, s, i) ==
  IF i >= res.num_steps THEN <<>>
  ELSE IF Fails(res, s, i) THEN <<[step |-> i, s |-> s]>>
  ELSE CHOOSE r \in {FirstFailing(res, p, nxt, i + 1) :
                       nxt \in {advance(p, s)}} : TRUE

NonNegativeWeights ==
  /\ last.key.cfg.pdist_scale_ >= 0
  /\ last.key.cfg.gdist_scale_ >= 0
  /\ last.key.cfg.occdist_scale_ >= 0
  /\ last.key.cfg.hdiff_scale_ >= 0

\* C12: the simulation of a candidate stops at its first failing step and
\* its cost is -4 exactly when the pose of that step is off the map, -5
\* exactly when the pose is on the map and the footprint cost there is
\* negative, -2 exactly when the pose passes both and the path or goal
\* distance read there is at least the impossible cost; a simulation with
\* no failing step ends with no sentinel and, the weights being
\* non-negative, with a cost >= 0.
C12_SentinelOfFirstFailingStep ==
  Called =>
    \A k \in LogIdx :
      \E res \in {last.log[k].res} :
      \E failing \in {FirstFailing(res, SimParams(res), SimStart, 0)} :
        IF failing = <<>>
        THEN /\ res.fail = 0
             /\ res.steps = res.num_steps
             /\ res.cost_ # COST_COLLISION
             /\ NonNegativeWeights => res.cost_ >= 0
        ELSE \E first \in {failing[1].step}, s \in {failing[1].s} :
               /\ res.steps = first
               /\ res.cost_ = res.fail
               /\ res.fail \in {COST_OFF_MAP, COST_COLLISION, COST_NO_PATH}
               /\ res.fail = COST_OFF_MAP <=> OffMap(s)
               /\ res.fail = COST_COLLISION <=> ~OffMap(s) /\ Collides(s)
               /\ res.fail = COST_NO_PATH <=>
                    ~OffMap(s) /\ ~Collides(s) /\ Infeasible(res, s, first)

\* one call simulated a candidate that collided after steps that passed
\* every check and a candidate that passed every check of every step
C12_CollisionAfterLegalSteps ==
  /\ Called
  /\ \E k \in LogIdx : /\ last.log[k].res.fail = COST_COLLISION
                       /\ last.log[k].res.steps > 0
  /\ \E k \in LogIdx : /\ last.log[k].res.fail = 0
                       /\ last.log[k].res.steps > 1

(***************************************************************************)
(* Planning without a reference path                                       *)
(***************************************************************************)
\* the simulation res reached a statement that indexes the plan: the goal
\* of the simple attractor (lines 319-322) at any step that passed the map
\* and the footprint checks, or headingDiff (line 332) at the last step
ReadsPlan(res) ==
  IF last.key.cfg.simple_attractor_
  THEN res.steps > 0 \/ res.fail \notin {COST_OFF_MAP, COST_COLLISION}
  ELSE /\ last.key.cfg.heading_scoring_
       /\ res.fail \in {0, COST_NO_PATH}

\* C13: in a cycle planned with an empty path every candidate that stays on
\* the map and collides with nothing ends with the no-path sentinel, no
\* simulation indexes the empty path, and the cycle returns a negative cost
\* and commands zero velocity.
C13_EmptyPathIsInfeasible ==
  Called /\ last.key.plan = <<>> =>
    /\ \A k \in LogIdx :
         last.log[k].res.fail \notin {COST_OFF_MAP, COST_COLLISION}
           => last.log[k].res.fail = COST_NO_PATH
    /\ \A k \in LogIdx : ~ReadsPlan(last.log[k].res)
    /\ last.ret.cost_ < 0
    /\ last.drive = ZeroCommand

(***************************************************************************)
(* reconfigure                                                             *)
(***************************************************************************)
\* a sample count as the claim has reconfigure store it
CorrectedCount(supplied) == IF supplied <= 0 THEN 1 ELSE supplied

\* C14: a reconfigure call stores each of the three sample counts as 1 when
\* the supplied count is zero or negative and unchanged when it is
\* positive, so every count is at least 1 afterwards.
C14_SampleCountsCorrected ==
  [][\A config \in Configs :
       Reconfigure(config) =>
         /\ cfg'.vx_samples_ = CorrectedCount(config.vx_samples)
         /\ cfg'.vy_samples_ = CorrectedCount(config.vy_samples)
         /\ cfg'.vtheta_samples_ = CorrectedCount(config.vtheta_samples)
         /\ cfg'.vx_samples_ >= 1
         /\ cfg'.vy_samples_ >= 1
         /\ cfg'.vtheta_samples_ >= 1]_vars

(***************************************************************************)
(* The number of steps of a simulation                                     *)
(***************************************************************************)
\* the smallest integer that is at least the fixed-point number v >= 0
Ceil(v) == (v + Scale - 1) \div Scale
\* ceil(sim_time / sim_granularity) + 1
HorizonSteps ==
  Ceil(Quo(last.key.cfg.sim_time_, last.key.cfg.sim_granularity_)) + 1
\* ceil of the larger of the path length over sim_granularity and the
\* rotation speed over angular_sim_granularity, plus one
TravelSteps(res) ==
  Ceil(Max(Quo(Mul(hypot(res.xv_, res.yv_), last.key.cfg.sim_time_),
               last.key.cfg.sim_granularity_),
           Quo(Abs(res.thetav_), last.key.cfg.angular_sim_granularity_))) + 1

\* C15: every simulation takes at least one step and at most
\* ceil(sim_time / sim_granularity) + 1 steps, with and without heading
\* scoring (stated for the cycles planned along a path, whose window is
\* computed from assigned values only).
C15_StepCountWithinHorizon ==
  Called /\ last.key.plan # <<>> =>
    \A k \in LogIdx :
      /\ 1 <= last.log[k].res.num_steps
      /\ last.log[k].res.num_steps <= HorizonSteps

\* C15 (amended): every simulation takes at least one step; with heading
\* scoring it takes at most ceil(sim_time / sim_granularity) + 1 steps, and
\* without it at most ceil(max(vmag * sim_time / sim_granularity,
\* |vtheta| / angular_sim_granularity)) + 1 steps, vmag being the sampled
\* linear speed.
C15_StepCountWithinTravel ==
  Called =>
    \A k \in LogIdx :
      /\ 1 <= last.log[k].res.num_steps
      /\ last.key.cfg.heading_scoring_ =>
           last.log[k].res.num_steps <= HorizonSteps
      /\ ~last.key.cfg.heading_scoring_ =>
           last.log[k].res.num_steps <= TravelSteps(last.log[k].res)

\* a call without heading scoring simulated a candidate in more steps than
\* the horizon holds, and one at rest in a single step
C15_MoreStepsThanHorizon ==
  /\ Called
  /\ last.key.plan # <<>>
  /\ ~last.key.cfg.heading_scoring_
  /\ \E k \in LogIdx : last.log[k].res.num_steps > HorizonSteps
  /\ \E k \in LogIdx : /\ last.log[k].res.num_steps = 1
                       /\ hypot(last.log[k].res.xv_, last.log[k].res.yv_) = 0

(***************************************************************************)
(* The velocity window                                                     *)
(***************************************************************************)
\* the distance from the robot to the final goal over sim_time
OvershootCap ==
  Quo(hypot(last.key.plan[Len(last.key.plan)].x - last.key.pose.x,
            last.key.plan[Len(last.key.plan)].y - last.key.pose.y),
      last.key.cfg.sim_time_)

\* C16: in a cycle with a valid final goal every forward velocity the
\* translate/rotate sweep samples is at most the distance to the final goal
\* divided by sim_time.
C16_SamplesWithinOvershootCap ==
  Called /\ last.key.plan # <<>> =>
    \A k \in LogIdx :
      last.log[k].tier = "translate" => last.log[k].res.xv_ <= OvershootCap

(***************************************************************************)
(* What a cycle's result depends on                                        *)
(***************************************************************************)
\* the final goal the plan of the last call gives
LastFinalGoal == finalGoal([valid |-> FALSE, x |-> 0, y |-> 0], last.key.plan)
\* a buffer no cycle has written
BlankBuffer == Trajectory(0, 0, 0, COST_UNSET, 0)
\* the last call made again by a planner with the buffers one and two and
\* the guard g
Replayed(one, two, g) ==
  createTrajectories(last.key.cfg, LastFinalGoal, last.env, last.in, one, two, g)

SameChoice(a, b) ==
  /\ a.xv_ = b.xv_
  /\ a.yv_ = b.yv_
  /\ a.thetav_ = b.thetav_
  /\ a.cost_ = b.cost_

\* C17: the velocity and the cost a cycle returns are those a planner whose
\* buffers no earlier cycle has written returns for the same inputs.
C17_BuffersDoNotReachResult ==
  Called =>
    \E r \in {Replayed(BlankBuffer, BlankBuffer, last.pre)} :
      SameChoice(last.ret, r.ret)


(***************************************************************************)
(* The guard and the selection                                             *)
(***************************************************************************)
\* the guard with every flag raised and the escape latch set at the pose of
\* the last call
RaisedGuard ==
  [rotating_left |-> TRUE, rotating_right |-> TRUE, strafe_left |-> TRUE,
   strafe_right |-> TRUE, stuck_left |-> TRUE, stuck_right |-> TRUE,
   stuck_left_strafe |-> TRUE, stuck_right_strafe |-> TRUE,
   prev_x_ |-> last.in.x, prev_y_ |-> last.in.y, escaping_ |-> TRUE,
   escape_x_ |-> last.in.x, escape_y_ |-> last.in.y,
   escape_theta_ |-> last.in.theta]

GuardStates == {initialGuard, RaisedGuard}

\* the last call made again from the buffers it started with, under guard g
ReplayedUnder(g) == Replayed(last.preOne, last.preTwo, g)

GuardFlags == {"rotating_left", "rotating_right", "strafe_left", "strafe_right",
               "stuck_left", "stuck_right", "stuck_left_strafe",
               "stuck_right_strafe"}

CycleStep == calls'.cycles # calls.cycles

\* C19: only a planning cycle changes the guard (updatePlan, reconfigure,
\* scoreTrajectory, checkTrajectory and getCellCosts leave it as it is), and
\* a cycle that returns a trajectory of positive forward speed raises no
\* committed or stuck flag and leaves prev_x_ and prev_y_ as they are.
C19_GuardFrame ==
  [][/\ guard' # guard => CycleStep
     /\ CycleStep /\ last'.ret.xv_ > 0 =>
          /\ \A f \in GuardFlags : guard'[f] => guard[f]
          /\ guard'.prev_x_ = guard.prev_x_
          /\ guard'.prev_y_ = guard.prev_y_]_vars

\* after updatePlan and reconfigure, a cycle that started with a flag raised
\* returned a forward trajectory, and a query was made after it
C19_ForwardCycleThenQuery ==
  /\ calls.plans > 0
  /\ calls.reconfigures > 0
  /\ Called
  /\ last.ret.xv_ > 0
  /\ ~AllFlagsClear(last.pre)
  /\ query.op # "none"


(***************************************************************************)
(* The cost of an admissible trajectory                                    *)
(***************************************************************************)
\* the loop states the steps i, i + 1, ... of a simulation evaluate, from
\* the loop state s of step i
RECURSIVE EvaluatedPoints(_, _, _)
EvaluatedPoints(p, s, i) ==
  IF i >= p.num_steps THEN <<>>
  ELSE CHOOSE r \in {<<s>> \o EvaluatedPoints(p, nxt, i + 1) :
                       nxt \in {advance(p, s)}} : TRUE

\* the footprint cost and the cell cost at a point
ObstacleCostAt(s) ==
  Max(footprintCost(last.env.costmap, s.x_i, s.y_i, s.theta_i),
      last.env.costmap[worldToMap(s.x_i, s.y_i).cell] * Scale)

RECURSIVE RunningMax(_, _)
RunningMax(pts, k) ==
  IF k = 0 THEN 0 ELSE Max(RunningMax(pts, k - 1), ObstacleCostAt(pts[k]))

\* the path distance of a point: none is read in simple-attractor mode
PathDistAt(s) ==
  IF last.key.cfg.simple_attractor_ THEN 0
  ELSE LET d == DistancesRead(s)[1]
       IN IF last.key.cfg.path_distance_max_ > 0
             /\ d <= last.key.cfg.path_distance_max_
          THEN 0 ELSE d

\* the goal distance of a point: in simple-attractor mode the squared
\* distance to the end of the plan
GoalDistAt(s) ==
  IF last.key.cfg.simple_attractor_
  THEN LET goal == last.key.plan[Len(last.key.plan)]
       IN Mul(s.x_i - goal.x, s.x_i - goal.x) + Mul(s.y_i - goal.y, s.y_i - goal.y)
  ELSE DistancesRead(s)[2]

\* the absolute heading difference headingDiff returns at a point
HeadingDiffAt(s) ==
  headingDiff(last.key.plan, s.x_i, s.y_i, s.theta_i, last.env.u).heading_diff

WithinTolerance(h) == IF h < HEADING_DIFF_TOLERANCE THEN 0 ELSE h

\* the total cost and the goal cost term the terms of the last evaluated
\* point give, with the heading term h
WeightedSum(pts, h) ==
  LET c == last.key.cfg
      final == pts[Len(pts)]
  IN [cost_ |-> Mul(c.pdist_scale_, PathDistAt(final))
                + Mul(c.gdist_scale_, GoalDistAt(final))
                + Mul(c.occdist_scale_, RunningMax(pts, Len(pts)))
                + (IF c.heading_scoring_ THEN Mul(c.hdiff_scale_, h) ELSE 0),
      goal_cost_traj_ |-> Mul(c.gdist_scale_, GoalDistAt(final))]

Admissible(k) == last.log[k].res.fail = 0

\* C20: the cost of every admissible candidate is the weighted sum of the
\* path distance, the goal distance and the heading difference headingDiff
\* returns at the last evaluated point and of the running maximum of the
\* obstacle cost, and its goal cost is the weighted goal distance.
C20_CostIsWeightedSum ==
  Called /\ last.key.plan # <<>> =>
    \A k \in LogIdx :
      Admissible(k) =>
        \E pts \in {EvaluatedPoints(SimParams(last.log[k].res), SimStart, 0)} :
        \E sum \in {WeightedSum(pts, HeadingDiffAt(pts[Len(pts)]))} :
          /\ last.log[k].res.cost_ = sum.cost_
          /\ last.log[k].res.goal_cost_traj_ = sum.goal_cost_traj_

\* C20 (amended): as C20, with a heading difference below 0.2 taken as zero.
C20_CostIsWeightedSumWithinTolerance ==
  Called /\ last.key.plan # <<>> =>
    \A k \in LogIdx :
      Admissible(k) =>
        \E pts \in {EvaluatedPoints(SimParams(last.log[k].res), SimStart, 0)} :
        \E sum \in {WeightedSum(pts,
                      WithinTolerance(HeadingDiffAt(pts[Len(pts)])))} :
          /\ last.log[k].res.cost_ = sum.cost_
          /\ last.log[k].res.goal_cost_traj_ = sum.goal_cost_traj_

\* an admissible candidate scored by heading ends with a heading difference
\* below 0.2 that is not zero
C20_SmallHeadingDifference ==
  /\ Called
  /\ last.key.plan # <<>>
  /\ last.key.cfg.heading_scoring_
  /\ \E k \in LogIdx :
       /\ Admissible(k)
       /\ \E pts \in {EvaluatedPoints(SimParams(last.log[k].res), SimStart, 0)} :
            /\ HeadingDiffAt(pts[Len(pts)]) > 0
            /\ HeadingDiffAt(pts[Len(pts)]) < HEADING_DIFF_TOLERANCE


(***************************************************************************)
(* headingDiff                                                             *)
(***************************************************************************)
HeadingDiffCalled == query.op = "headingDiff" /\ query.plan # <<>>

PoseDistance(j) ==
  hypot(query.plan[j].x - query.x, query.plan[j].y - query.y)

\* the least distance from the point to a pose of the plan, the last pose
\* included
MinPoseDistance ==
  CHOOSE d \in {PoseDistance(j) : j \in 1..Len(query.plan)} :
    \A j \in 1..Len(query.plan) : d <= PoseDistance(j)

\* the pose at that distance met first when the plan is scanned from its
\* end backward
NearestPose ==
  CHOOSE j \in 1..Len(query.plan) :
    /\ PoseDistance(j) = MinPoseDistance
    /\ \A k \in 1..Len(query.plan) : PoseDistance(k) = MinPoseDistance => k <= j

\* C21: for a plan that is not empty headingDiff outputs as path distance
\* the least distance from the point to any pose of the plan, the last one
\* included, and takes the reference heading one pose after the nearest
\* pose, the first met scanning backward, clamped to the last pose.
C21_HeadingDiffNearestPose ==
  HeadingDiffCalled =>
    /\ query.out.path_dist = MinPoseDistance
    /\ query.out.heading_diff =
         Abs(shortest_angular_distance(query.heading,
               query.plan[Min(NearestPose + 1, Len(query.plan))].th))


(***************************************************************************)
(* The in-place rotations                                                  *)
(***************************************************************************)
MinInPlace == last.key.cfg.min_in_place_vel_th_

\* t turns on the spot
InPlaceRotation(t) == t.xv_ = 0 /\ t.yv_ = 0 /\ t.thetav_ # 0

\* C22: every candidate of the in-place sweep has no forward and no lateral
\* speed and an angular speed of at least min_in_place_vel_th_, positive
\* when the window sample is positive and negative otherwise; an in-place
\* rotation a cycle returns turns at min_in_place_vel_th_ or faster.
C22_InPlaceRotationClamped ==
  Called /\ MinInPlace >= 0 =>
    /\ \A k \in LogIdx :
         last.log[k].tier = "inplace" =>
           /\ last.log[k].traj.xv_ = 0
           /\ last.log[k].traj.yv_ = 0
           /\ Abs(last.log[k].traj.thetav_) >= MinInPlace
           /\ IF last.log[k].raw > 0 THEN last.log[k].traj.thetav_ > 0
              ELSE last.log[k].traj.thetav_ < 0
    /\ InPlaceRotation(last.ret) => Abs(last.ret.thetav_) >= MinInPlace


(***************************************************************************)
(* lineCost                                                                *)
(***************************************************************************)
LineCostCalled == query.op = "lineCost"
LineCells == query.out.cells
LineLength == Max(Abs(query.x1 - query.x0), Abs(query.y1 - query.y0)) + 1

Adjacent(a, b) == a # b /\ Abs(a[1] - b[1]) <= 1 /\ Abs(a[2] - b[2]) <= 1
Blocked(cell) == pointCost(costmap, cell) < 0

\* the largest cell cost among the cells scored
MaxCellCost ==
  CHOOSE m \in {pointCost(costmap, LineCells[k]) : k \in 1..Len(LineCells)} :
    \A k \in 1..Len(LineCells) : pointCost(costmap, LineCells[k]) <= m

\* the cells scored start at (x0, y0) and each is next to the one before
LinePath ==
  /\ LineCells[1] = <<query.x0, query.y0>>
  /\ \A k \in 1..(Len(LineCells) - 1) : Adjacent(LineCells[k], LineCells[k + 1])

\* the value returned: -1 exactly when a cell scored is blocked, else the
\* largest cell cost
LineValue ==
  /\ query.out.cost = -Scale <=> \E k \in 1..Len(LineCells) : Blocked(LineCells[k])
  /\ query.out.cost # -Scale => query.out.cost = MaxCellCost

\* C23: lineCost scores exactly max(|x1 - x0|, |y1 - y0|) + 1 cells, from
\* (x0, y0) to (x1, y1), each next to the one before; it returns -1 exactly
\* when a cell it scored is blocked and the largest cell cost otherwise.
C23_LineCostScoresWholeLine ==
  LineCostCalled =>
    /\ Len(LineCells) = LineLength
    /\ LineCells[Len(LineCells)] = <<query.x1, query.y1>>
    /\ LinePath
    /\ LineValue

\* C23 (amended): lineCost scores the cells of the line in order from
\* (x0, y0), each next to the one before, and stops at the first blocked
\* cell; with no blocked cell it scores exactly max(|x1 - x0|, |y1 - y0|) + 1
\* cells, the last being (x1, y1).  It returns -1 exactly when a cell it
\* scored is blocked and the largest cell cost otherwise.
C23_LineCostStopsAtBlockedCell ==
  LineCostCalled =>
    /\ Len(LineCells) <= LineLength
    /\ \A k \in 1..(Len(LineCells) - 1) : ~Blocked(LineCells[k])
    /\ ~Blocked(LineCells[Len(LineCells)]) =>
         /\ Len(LineCells) = LineLength
         /\ LineCells[Len(LineCells)] = <<query.x1, query.y1>>
    /\ LinePath
    /\ LineValue

\* a line that is cut short at a blocked cell, and a line scored to its end
\* over a cell of non-zero cost
C23_LineCutShort ==
  /\ LineCostCalled
  /\ Len(LineCells) < LineLength
  /\ query.out.cost = -Scale

C23_LineScoredToEnd ==
  /\ LineCostCalled
  /\ Len(LineCells) = LineLength
  /\ LineLength > 2
  /\ query.out.cost > 0


(***************************************************************************)
(* C24: reconfigure and generateTrajectory on the configuration mutex.     *)
(***************************************************************************)
\* the planning thread is inside generateTrajectory
Generating == pc = "generate"

\* the reconfigure thread is between its first and its last field write
ReconfigureWriting == reconf.pc \in {"limits", "rest"}

\* a configuration with the limits of a request and not its other members
HalfWritten(c) ==
  \E config \in MutexConfigs :
    c = writeLimits(c, config) /\ c # reconfigure(c, config)

\* a candidate has been simulated in the cycle under way
CandidateSimulated == "under" \in DOMAIN cyc

\* no execution of generateTrajectory overlaps the field writes of a
\* reconfigure, and the members its body reads are never half-written
GenerateExcludesReconfigure ==
  /\ ~(Generating /\ ReconfigureWriting)
  /\ CandidateSimulated => ~HalfWritten(cyc.under)

\* the acceleration limits the candidate was simulated with are those of
\* the configuration its body read
LimitsOfSameConfiguration ==
  CandidateSimulated =>
    /\ cyc.in.acc_x = cyc.under.acc_lim_x_
    /\ cyc.in.acc_y = cyc.under.acc_lim_y_
    /\ cyc.in.acc_theta = cyc.under.acc_lim_theta_

\* C24: reconfigure and generateTrajectory exclude each other on the
\* configuration mutex, so every candidate is simulated and scored wholly
\* under the configuration before or wholly under the configuration after a
\* reconfigure, never under a mix of old and new fields
C24_CandidateUnderOneConfiguration ==
  GenerateExcludesReconfigure /\ LimitsOfSameConfiguration


(***************************************************************************)
(* C25: the flags of the oscillation guard over every reachable state.     *)
(***************************************************************************)
\* the directions whose committed flag the most recent cycle raised
RaisedByLastCycle ==
  {d \in Directions : ~CommittedFlag(last.pre, d) /\ CommittedFlag(guard, d)}

\* C25: in every reachable planner state each stuck flag implies the
\* committed flag of the same direction (stuck_left => rotating_left,
\* stuck_right => rotating_right, stuck_left_strafe => strafe_left,
\* stuck_right_strafe => strafe_right), and a cycle changes at most one
\* committed flag from false to true
C25_StuckImpliesCommitted ==
  /\ \A d \in Directions : StuckFlag(guard, d) => CommittedFlag(guard, d)
  /\ Called => Cardinality(RaisedByLastCycle) <= 1

\* a cycle has raised a stuck flag over a committed flag that was up
C25_StuckFlagRaised ==
  /\ Called
  /\ \E d \in Directions :
       /\ CommittedFlag(last.pre, d) /\ ~StuckFlag(last.pre, d)
       /\ CommittedFlag(guard, d) /\ StuckFlag(guard, d)

====
